---- MODULE Spec2Model ----
(***************************************************************************)
(* Model of the openinghours package (the variant that takes a parsed      *)
(* []OpeningHours: ParseOpeningHours, OpeningHoursSliceToString,           *)
(* GetHumanReadableTimes, GetOCPIOpeningTimes).                            *)
(*                                                                         *)
(* A Go string is a sequence of one-character strings.  A *TimeInWeek is   *)
(* an address into 'heap' (0 is the nil pointer); an OpeningHours is the   *)
(* pair of addresses [Open, Close].  The value of an endpoint, where only  *)
(* the value matters, is a sequence of zero (nil) or one TimeInWeek.       *)
(***************************************************************************)
EXTENDS Integers, Sequences, FiniteSets, TLC

\* ------------------------------------------------------------------ bounds
\* longest sequence of intervals the caller constructs
MaxLen == 2

\* ------------------------------------------------------------- characters
Digits == <<"0", "1", "2", "3", "4", "5", "6", "7", "8", "9">>

IsDigit(c) == \E i \in 1..10 : Digits[i] = c

DigitVal(c) == (CHOOSE i \in 1..10 : Digits[i] = c) - 1

\* strconv.Itoa / the %d verb
RECURSIVE Itoa(_)
Itoa(n) ==
    IF n < 0 THEN <<"-">> \o Itoa(0 - n)
    ELSE IF n < 10 THEN <<Digits[n + 1]>>
    ELSE Itoa(n \div 10) \o <<Digits[(n % 10) + 1]>>

\* the %02d verb: zero-padded to width 2, never truncated
SprintfPad2(n) ==
    IF n >= 0 /\ n < 10 THEN <<"0">> \o Itoa(n) ELSE Itoa(n)

\* strconv.Atoi: optional sign followed by at least one digit
RECURSIVE DigitsToNat(_)
DigitsToNat(s) ==
    IF s = <<>> THEN 0
    ELSE 10 * DigitsToNat(SubSeq(s, 1, Len(s) - 1)) + DigitVal(s[Len(s)])

Atoi(s) ==
    LET signed == s # <<>> /\ s[1] \in {"+", "-"}
        body   == IF signed THEN Tail(s) ELSE s
        ok     == body # <<>> /\ \A i \in 1..Len(body) : IsDigit(body[i])
    IN  [ok  |-> ok,
         val |-> IF ~ok THEN 0
                 ELSE IF signed /\ s[1] = "-" THEN 0 - DigitsToNat(body)
                 ELSE DigitsToNat(body)]

\* strings.Split(s, sep) for a one-character separator: Split("", sep) = [""]
RECURSIVE Split(_, _)
Split(s, sep) ==
    IF \A i \in 1..Len(s) : s[i] # sep THEN <<s>>
    ELSE LET k == CHOOSE i \in 1..Len(s) :
                      s[i] = sep /\ \A j \in 1..(i - 1) : s[j] # sep
         IN  <<SubSeq(s, 1, k - 1)>> \o Split(SubSeq(s, k + 1, Len(s)), sep)

\* strings.Join(strs, sep)
RECURSIVE Join(_, _)
Join(strs, sep) ==
    IF strs = <<>> THEN <<>>
    ELSE IF Len(strs) = 1 THEN strs[1]
    ELSE strs[1] \o sep \o Join(Tail(strs), sep)

\* ------------------------------------------------------------------ errors
\* An error message is the sequence of its pieces: the literal text of the
\* format string and the raw tokens substituted for %s.  nil is <<>>.  The
\* backquote of the Go format strings is written ' here.
Lit(text) == [lit |-> text, tok |-> <<>>]
Tok(chars) == [lit |-> "", tok |-> chars]
NoError == <<>>

\* ------------------------------------------------------------- formatting
\* mutant: the verbs written %d, without the zero padding
TimeInWeekString_Unpadded(t) ==
    <<"W">> \o Itoa(t.Weekday) \o <<"T">>
        \o Itoa(t.MinutesSinceMidnight \div 60) \o <<":">>
        \o Itoa(t.MinutesSinceMidnight % 60) \o <<":", "0", "0">>

\* fmt.Sprintf("W%dT%02d:%02d:00", Weekday, M/60, M%60)
TimeInWeekString(t) ==
    <<"W">> \o Itoa(t.Weekday) \o <<"T">>
        \o SprintfPad2(t.MinutesSinceMidnight \div 60) \o <<":">>
        \o SprintfPad2(t.MinutesSinceMidnight % 60) \o <<":", "0", "0">>

\* OpeningHours.String on the value of an interval
OpeningHoursString(oh) ==
    LET open  == IF oh.Open # <<>> THEN TimeInWeekString(oh.Open[1]) ELSE <<>>
        close == IF oh.Close # <<>> THEN TimeInWeekString(oh.Close[1]) ELSE <<>>
    IN  open \o <<"/">> \o close

OpeningHoursSliceToString(ohs) ==
    Join([i \in 1..Len(ohs) |-> OpeningHoursString(ohs[i])], <<",">>)

\* mutant: the hours wrap at 24
minutesSinceMidnightToTime_WrapsAtMidnight(m) ==
    SprintfPad2((m \div 60) % 24) \o <<":">> \o SprintfPad2(m % 60)

\* fmt.Sprintf("%02d:%02d", m/60, m%60)
minutesSinceMidnightToTime(m) ==
    SprintfPad2(m \div 60) \o <<":">> \o SprintfPad2(m % 60)

\* ---------------------------------------------------------------- parsing
\* mutant: the minutes are validated but not added
ParseMinutesSinceMidnight_HoursOnly(v1, v2) ==
    LET hours   == Atoi(v1)
        minutes == Atoi(v2)
    IN  IF ~hours.ok \/ hours.val < 0 \/ hours.val > 24
        THEN [val |-> 0, err |-> <<Lit("invalid hours value")>>]
        ELSE IF ~minutes.ok \/ minutes.val < 0 \/ minutes.val > 59
        THEN [val |-> 0, err |-> <<Lit("invalid minutes value")>>]
        ELSE IF hours.val = 24 /\ minutes.val # 0
        THEN [val |-> 0, err |-> <<Lit("invalid value")>>]
        ELSE [val |-> hours.val * 60, err |-> NoError]

\* mutant: hour 24 is accepted with any minutes
ParseMinutesSinceMidnight_No24Check(v1, v2) ==
    LET hours   == Atoi(v1)
        minutes == Atoi(v2)
    IN  IF ~hours.ok \/ hours.val < 0 \/ hours.val > 24
        THEN [val |-> 0, err |-> <<Lit("invalid hours value")>>]
        ELSE IF ~minutes.ok \/ minutes.val < 0 \/ minutes.val > 59
        THEN [val |-> 0, err |-> <<Lit("invalid minutes value")>>]
        ELSE [val |-> hours.val * 60 + minutes.val, err |-> NoError]

ParseMinutesSinceMidnight(v1, v2) ==
    LET hours   == Atoi(v1)
        minutes == Atoi(v2)
    IN  IF ~hours.ok \/ hours.val < 0 \/ hours.val > 24
        THEN [val |-> 0, err |-> <<Lit("invalid hours value")>>]
        ELSE IF ~minutes.ok \/ minutes.val < 0 \/ minutes.val > 59
        THEN [val |-> 0, err |-> <<Lit("invalid minutes value")>>]
        ELSE IF hours.val = 24 /\ minutes.val # 0
        THEN [val |-> 0, err |-> <<Lit("invalid value")>>]
        ELSE [val |-> hours.val * 60 + minutes.val, err |-> NoError]

\* mutant: the digits 8 and 9 are taken as weekdays
parseWeekDay_AnyDigit(v) ==
    LET i == Atoi(v)
    IN  IF ~i.ok THEN 0 ELSE i.val

parseWeekDay(v) ==
    LET i == Atoi(v)
    IN  IF ~i.ok \/ i.val < 1 \/ i.val > 7 THEN 0 ELSE i.val

\* mutant: the seconds must be below 60
FindStringSubmatch_SecondsBelow60(v) ==
    IF /\ Len(v) = 11
       /\ v[1] = "W" /\ IsDigit(v[2]) /\ v[3] = "T"
       /\ IsDigit(v[4]) /\ IsDigit(v[5]) /\ v[6] = ":"
       /\ IsDigit(v[7]) /\ IsDigit(v[8]) /\ v[9] = ":"
       /\ IsDigit(v[10]) /\ IsDigit(v[11]) /\ DigitVal(v[10]) < 6
    THEN <<v, <<v[2]>>, <<v[4], v[5]>>, <<v[7], v[8]>>>>
    ELSE <<>>

\* regexp ^W(\d)T(\d{2}):(\d{2}):\d{2}$ : the submatches, <<>> on no match
FindStringSubmatch(v) ==
    IF /\ Len(v) = 11
       /\ v[1] = "W" /\ IsDigit(v[2]) /\ v[3] = "T"
       /\ IsDigit(v[4]) /\ IsDigit(v[5]) /\ v[6] = ":"
       /\ IsDigit(v[7]) /\ IsDigit(v[8]) /\ v[9] = ":"
       /\ IsDigit(v[10]) /\ IsDigit(v[11])
    THEN <<v, <<v[2]>>, <<v[4], v[5]>>, <<v[7], v[8]>>>>
    ELSE <<>>

\* mutant: the clock is validated before the weekday
parseTimeInWeek_ClockFirst(v) ==
    IF v = <<>> THEN [tiw |-> <<>>, err |-> NoError]
    ELSE
      LET matches == FindStringSubmatch(v)
      IN  IF Len(matches) < 2
          THEN [tiw |-> <<>>, err |-> <<Lit("invalid value '"), Tok(v), Lit("'")>>]
          ELSE
            LET msm == ParseMinutesSinceMidnight(matches[3], matches[4])
            IN  IF msm.err # NoError
                THEN [tiw |-> <<>>,
                      err |-> <<Lit("invalid time in '"), Tok(v), Lit("': ")>>
                              \o msm.err]
                ELSE
                  LET weekday == parseWeekDay(matches[2])
                  IN  IF weekday = 0
                      THEN [tiw |-> <<>>,
                            err |-> <<Lit("invalid workday in '"), Tok(v),
                                      Lit("': expected to be between 1 (monday) and 7 (sunday)")>>]
                      ELSE [tiw |-> <<[Weekday |-> weekday,
                                       MinutesSinceMidnight |-> msm.val]>>,
                            err |-> NoError]

\* mutant: the empty endpoint is not accepted as an absent one
parseTimeInWeek_EmptyInvalid(v) ==
    LET matches == FindStringSubmatch(v)
      IN  IF Len(matches) < 2
          THEN [tiw |-> <<>>, err |-> <<Lit("invalid value '"), Tok(v), Lit("'")>>]
          ELSE
            LET weekday == parseWeekDay(matches[2])
            IN  IF weekday = 0
                THEN [tiw |-> <<>>,
                      err |-> <<Lit("invalid workday in '"), Tok(v),
                                Lit("': expected to be between 1 (monday) and 7 (sunday)")>>]
                ELSE
                  LET msm == ParseMinutesSinceMidnight(matches[3], matches[4])
                  IN  IF msm.err # NoError
                      THEN [tiw |-> <<>>,
                            err |-> <<Lit("invalid time in '"), Tok(v), Lit("': ")>>
                                    \o msm.err]
                      ELSE [tiw |-> <<[Weekday |-> weekday,
                                       MinutesSinceMidnight |-> msm.val]>>,
                            err |-> NoError]

\* the endpoint value (<<>> is the nil pointer) and the error
parseTimeInWeek(v) ==
    IF v = <<>> THEN [tiw |-> <<>>, err |-> NoError]
    ELSE
      LET matches == FindStringSubmatch(v)
      IN  IF Len(matches) < 2
          THEN [tiw |-> <<>>, err |-> <<Lit("invalid value '"), Tok(v), Lit("'")>>]
          ELSE
            LET weekday == parseWeekDay(matches[2])
            IN  IF weekday = 0
                THEN [tiw |-> <<>>,
                      err |-> <<Lit("invalid workday in '"), Tok(v),
                                Lit("': expected to be between 1 (monday) and 7 (sunday)")>>]
                ELSE
                  LET msm == ParseMinutesSinceMidnight(matches[3], matches[4])
                  IN  IF msm.err # NoError
                      THEN [tiw |-> <<>>,
                            err |-> <<Lit("invalid time in '"), Tok(v), Lit("': ")>>
                                    \o msm.err]
                      ELSE [tiw |-> <<[Weekday |-> weekday,
                                       MinutesSinceMidnight |-> msm.val]>>,
                            err |-> NoError]

\* mutant: on an error the intervals parsed so far are returned with it
RECURSIVE ParseSegments_KeepsParsed(_, _, _)
ParseSegments_KeepsParsed(strs, i, ohs) ==
    IF i > Len(strs) THEN [nil |-> FALSE, ohs |-> ohs, err |-> NoError]
    ELSE IF strs[i] = <<>> THEN ParseSegments_KeepsParsed(strs, i + 1, ohs)
    ELSE
      LET parts == Split(strs[i], "/")
      IN  IF Len(parts) # 2
          THEN [nil |-> FALSE, ohs |-> ohs,
                err |-> <<Lit("invalid opening hours string '"), Tok(strs[i]), Lit("'")>>]
          ELSE
            LET openingHours == parseTimeInWeek(parts[1])
            IN  IF openingHours.err # NoError
                THEN [nil |-> FALSE, ohs |-> ohs,
                      err |-> <<Lit("invalid opening hours: ")>> \o openingHours.err]
                ELSE
                  LET closingHours == parseTimeInWeek(parts[2])
                  IN  IF closingHours.err # NoError
                      THEN [nil |-> FALSE, ohs |-> ohs,
                            err |-> <<Lit("invalid closing hours: ")>> \o closingHours.err]
                      ELSE ParseSegments_KeepsParsed(strs, i + 1,
                               Append(ohs, [Open  |-> openingHours.tiw,
                                            Close |-> closingHours.tiw]))

\* mutant: only a segment without any / is rejected as a whole
RECURSIVE ParseSegments_PartsUnchecked(_, _, _)
ParseSegments_PartsUnchecked(strs, i, ohs) ==
    IF i > Len(strs) THEN [nil |-> FALSE, ohs |-> ohs, err |-> NoError]
    ELSE IF strs[i] = <<>> THEN ParseSegments_PartsUnchecked(strs, i + 1, ohs)
    ELSE
      LET parts == Split(strs[i], "/")
      IN  IF Len(parts) < 2
          THEN [nil |-> TRUE, ohs |-> <<>>,
                err |-> <<Lit("invalid opening hours string '"), Tok(strs[i]), Lit("'")>>]
          ELSE
            LET openingHours == parseTimeInWeek(parts[1])
            IN  IF openingHours.err # NoError
                THEN [nil |-> TRUE, ohs |-> <<>>,
                      err |-> <<Lit("invalid opening hours: ")>> \o openingHours.err]
                ELSE
                  LET closingHours == parseTimeInWeek(parts[2])
                  IN  IF closingHours.err # NoError
                      THEN [nil |-> TRUE, ohs |-> <<>>,
                            err |-> <<Lit("invalid closing hours: ")>> \o closingHours.err]
                      ELSE ParseSegments_PartsUnchecked(strs, i + 1,
                               Append(ohs, [Open  |-> openingHours.tiw,
                                            Close |-> closingHours.tiw]))

\* mutant: the closing endpoint is validated before the opening one
RECURSIVE ParseSegments_CloseFirst(_, _, _)
ParseSegments_CloseFirst(strs, i, ohs) ==
    IF i > Len(strs) THEN [nil |-> FALSE, ohs |-> ohs, err |-> NoError]
    ELSE IF strs[i] = <<>> THEN ParseSegments_CloseFirst(strs, i + 1, ohs)
    ELSE
      LET parts == Split(strs[i], "/")
      IN  IF Len(parts) # 2
          THEN [nil |-> TRUE, ohs |-> <<>>,
                err |-> <<Lit("invalid opening hours string '"), Tok(strs[i]), Lit("'")>>]
          ELSE
            LET closingHours == parseTimeInWeek(parts[2])
            IN  IF closingHours.err # NoError
                THEN [nil |-> TRUE, ohs |-> <<>>,
                      err |-> <<Lit("invalid closing hours: ")>> \o closingHours.err]
                ELSE
                  LET openingHours == parseTimeInWeek(parts[1])
                  IN  IF openingHours.err # NoError
                      THEN [nil |-> TRUE, ohs |-> <<>>,
                            err |-> <<Lit("invalid opening hours: ")>> \o openingHours.err]
                      ELSE ParseSegments_CloseFirst(strs, i + 1,
                               Append(ohs, [Open  |-> openingHours.tiw,
                                            Close |-> closingHours.tiw]))

\* the loop of ParseOpeningHours over strs[i..], ohs accumulated so far
RECURSIVE ParseSegments(_, _, _)
ParseSegments(strs, i, ohs) ==
    IF i > Len(strs) THEN [nil |-> FALSE, ohs |-> ohs, err |-> NoError]
    ELSE IF strs[i] = <<>> THEN ParseSegments(strs, i + 1, ohs)
    ELSE
      LET parts == Split(strs[i], "/")
      IN  IF Len(parts) # 2
          THEN [nil |-> TRUE, ohs |-> <<>>,
                err |-> <<Lit("invalid opening hours string '"), Tok(strs[i]), Lit("'")>>]
          ELSE
            LET openingHours == parseTimeInWeek(parts[1])
            IN  IF openingHours.err # NoError
                THEN [nil |-> TRUE, ohs |-> <<>>,
                      err |-> <<Lit("invalid opening hours: ")>> \o openingHours.err]
                ELSE
                  LET closingHours == parseTimeInWeek(parts[2])
                  IN  IF closingHours.err # NoError
                      THEN [nil |-> TRUE, ohs |-> <<>>,
                            err |-> <<Lit("invalid closing hours: ")>> \o closingHours.err]
                      ELSE ParseSegments(strs, i + 1,
                               Append(ohs, [Open  |-> openingHours.tiw,
                                            Close |-> closingHours.tiw]))

ParseOpeningHours(v) == ParseSegments(Split(v, ","), 1, <<>>)

\* ---------------------------------------------------------- weekday names
UpperCase == <<"A", "B", "C", "D", "E", "F", "G", "H", "I", "J", "K", "L", "M",
               "N", "O", "P", "Q", "R", "S", "T", "U", "V", "W", "X", "Y", "Z">>
LowerCase == <<"a", "b", "c", "d", "e", "f", "g", "h", "i", "j", "k", "l", "m",
               "n", "o", "p", "q", "r", "s", "t", "u", "v", "w", "x", "y", "z">>

\* strings.ToLower
ToLower(s) ==
    [i \in 1..Len(s) |->
        IF \E k \in 1..26 : UpperCase[k] = s[i]
        THEN LowerCase[CHOOSE k \in 1..26 : UpperCase[k] = s[i]]
        ELSE s[i]]

\* mutant: the switch is on dayStr itself, not on its lower-case form
ParseStringWeekdayToTimeWeekday_CaseSensitive(dayStr) ==
    LET s == dayStr
    IN  CASE s \in {<<"m", "o", "n", "d", "a", "y">>, <<"m", "o", "n">>} ->
               [val |-> 1, err |-> NoError]
          [] s \in {<<"t", "u", "e", "s", "d", "a", "y">>, <<"t", "u", "e">>} ->
               [val |-> 2, err |-> NoError]
          [] s \in {<<"w", "e", "d", "n", "e", "s", "d", "a", "y">>, <<"w", "e", "d">>} ->
               [val |-> 3, err |-> NoError]
          [] s \in {<<"t", "h", "u", "r", "s", "d", "a", "y">>, <<"t", "h", "u">>} ->
               [val |-> 4, err |-> NoError]
          [] s \in {<<"f", "r", "i", "d", "a", "y">>, <<"f", "r", "i">>} ->
               [val |-> 5, err |-> NoError]
          [] s \in {<<"s", "a", "t", "u", "r", "d", "a", "y">>, <<"s", "a", "t">>} ->
               [val |-> 6, err |-> NoError]
          [] s \in {<<"s", "u", "n", "d", "a", "y">>, <<"s", "u", "n">>} ->
               [val |-> 7, err |-> NoError]
          [] OTHER -> [val |-> 0, err |-> <<Lit("invalid weekday: "), Tok(dayStr)>>]

\* mutant: time.Weekday numbering (sunday is 0) and full names only
ParseStringWeekdayToTimeWeekday_StdlibWeekday(dayStr) ==
    LET s == ToLower(dayStr)
    IN  CASE s = <<"m", "o", "n", "d", "a", "y">> -> [val |-> 1, err |-> NoError]
          [] s = <<"t", "u", "e", "s", "d", "a", "y">> -> [val |-> 2, err |-> NoError]
          [] s = <<"w", "e", "d", "n", "e", "s", "d", "a", "y">> ->
               [val |-> 3, err |-> NoError]
          [] s = <<"t", "h", "u", "r", "s", "d", "a", "y">> -> [val |-> 4, err |-> NoError]
          [] s = <<"f", "r", "i", "d", "a", "y">> -> [val |-> 5, err |-> NoError]
          [] s = <<"s", "a", "t", "u", "r", "d", "a", "y">> -> [val |-> 6, err |-> NoError]
          [] s = <<"s", "u", "n", "d", "a", "y">> -> [val |-> 0, err |-> NoError]
          [] OTHER -> [val |-> 0, err |-> <<Lit("invalid weekday: "), Tok(dayStr)>>]

\* switch strings.ToLower(dayStr) { case "monday", "mon": return 1, nil ... }
ParseStringWeekdayToTimeWeekday(dayStr) ==
    LET s == ToLower(dayStr)
    IN  CASE s \in {<<"m", "o", "n", "d", "a", "y">>, <<"m", "o", "n">>} ->
               [val |-> 1, err |-> NoError]
          [] s \in {<<"t", "u", "e", "s", "d", "a", "y">>, <<"t", "u", "e">>} ->
               [val |-> 2, err |-> NoError]
          [] s \in {<<"w", "e", "d", "n", "e", "s", "d", "a", "y">>, <<"w", "e", "d">>} ->
               [val |-> 3, err |-> NoError]
          [] s \in {<<"t", "h", "u", "r", "s", "d", "a", "y">>, <<"t", "h", "u">>} ->
               [val |-> 4, err |-> NoError]
          [] s \in {<<"f", "r", "i", "d", "a", "y">>, <<"f", "r", "i">>} ->
               [val |-> 5, err |-> NoError]
          [] s \in {<<"s", "a", "t", "u", "r", "d", "a", "y">>, <<"s", "a", "t">>} ->
               [val |-> 6, err |-> NoError]
          [] s \in {<<"s", "u", "n", "d", "a", "y">>, <<"s", "u", "n">>} ->
               [val |-> 7, err |-> NoError]
          [] OTHER -> [val |-> 0, err |-> <<Lit("invalid weekday: "), Tok(dayStr)>>]

\* ------------------------------------------------------------ the week
\* mutant: the case of sunday is missing
getWeekDay_NoSunday(weekday) ==
    CASE weekday = 1 -> "monday"
      [] weekday = 2 -> "tuesday"
      [] weekday = 3 -> "wednesday"
      [] weekday = 4 -> "thursday"
      [] weekday = 5 -> "friday"
      [] weekday = 6 -> "saturday"
      [] OTHER -> ""

getWeekDay(weekday) ==
    CASE weekday = 1 -> "monday"
      [] weekday = 2 -> "tuesday"
      [] weekday = 3 -> "wednesday"
      [] weekday = 4 -> "thursday"
      [] weekday = 5 -> "friday"
      [] weekday = 6 -> "saturday"
      [] weekday = 7 -> "sunday"
      [] OTHER -> ""

\* setNextDay(&t.Weekday) on the cell at address a
setNextDay(h, a) ==
    [h EXCEPT ![a].Weekday = (h[a].Weekday % 7) + 1]

\* mutant: below monday the weekday is clamped to 1, not wrapped to 7
setPreviousDay_Clamped(h, a) ==
    [h EXCEPT ![a].Weekday = IF h[a].Weekday - 1 < 1 THEN 1 ELSE h[a].Weekday - 1]

\* setPreviousDay(&t.Weekday) on the cell at address a
setPreviousDay(h, a) ==
    [h EXCEPT ![a].Weekday = IF h[a].Weekday - 1 < 1 THEN 7 ELSE h[a].Weekday - 1]

Time0000 == <<"0", "0", ":", "0", "0">>
Time2400 == <<"2", "4", ":", "0", "0">>

\* ------------------------------------------------- GetHumanReadableTimes
TimeRange(open, close) == [Open |-> open, Close |-> close]

\* mutant: the new range is put before the ranges the weekday already has
addTimeToWeek_Prepend(times, weekday, openingTime, closingTime) ==
    [k \in (DOMAIN times) \cup {weekday} |->
        IF k = weekday
        THEN <<TimeRange(openingTime, closingTime)>>
                \o (IF k \in DOMAIN times THEN times[k] ELSE <<>>)
        ELSE times[k]]

\* times[weekday] = append(times[weekday], TimeRange{...}); the empty map is <<>>
addTimeToWeek(times, weekday, openingTime, closingTime) ==
    [k \in (DOMAIN times) \cup {weekday} |->
        IF k = weekday
        THEN Append(IF k \in DOMAIN times THEN times[k] ELSE <<>>,
                    TimeRange(openingTime, closingTime))
        ELSE times[k]]

\* one addTimeToWeek call, as recorded in the order the calls are made
DayEntry(weekday, openingTime, closingTime) ==
    [Weekday |-> weekday, Open |-> openingTime, Close |-> closingTime]

\* mutant: a full day closes at 00:00, the convention of the OCPI loop
RECURSIVE HumanReadableFullDays_ClosingAtZero(_, _, _)
HumanReadableFullDays_ClosingAtZero(h, oh, out) ==
    IF h[oh.Open].Weekday # h[oh.Close].Weekday
    THEN HumanReadableFullDays_ClosingAtZero(setNextDay(h, oh.Open), oh,
             Append(out, [Weekday |-> getWeekDay(h[oh.Open].Weekday),
                          Open |-> Time0000, Close |-> Time0000]))
    ELSE [heap |-> h, out |-> out]

\* for oh.Open.Weekday != oh.Close.Weekday { add full day; setNextDay }
RECURSIVE HumanReadableFullDays(_, _, _)
HumanReadableFullDays(h, oh, out) ==
    IF h[oh.Open].Weekday # h[oh.Close].Weekday
    THEN HumanReadableFullDays(setNextDay(h, oh.Open), oh,
             Append(out, DayEntry(getWeekDay(h[oh.Open].Weekday), Time0000, Time2400)))
    ELSE [heap |-> h, out |-> out]

\* mutant: the test oh.Open.Weekday == oh.Close.Weekday is missing, every
\* interval is walked
HumanReadableInterval_NoSameDayCase(h, oh) ==
    IF oh.Close = 0 THEN [heap |-> h, out |-> <<>>, panic |-> TRUE]
    ELSE
      LET h1 == IF h[oh.Close].MinutesSinceMidnight = 0
                THEN [setPreviousDay(h, oh.Close)
                         EXCEPT ![oh.Close].MinutesSinceMidnight = 1440]
                ELSE h
      IN  IF oh.Open = 0 THEN [heap |-> h1, out |-> <<>>, panic |-> TRUE]
          ELSE
            LET first == DayEntry(getWeekDay(h1[oh.Open].Weekday),
                             minutesSinceMidnightToTime(h1[oh.Open].MinutesSinceMidnight),
                             Time2400)
                walk  == HumanReadableFullDays(setNextDay(h1, oh.Open), oh, <<first>>)
                h3    == walk.heap
            IN  [heap  |-> h3,
                 out   |-> Append(walk.out,
                              DayEntry(getWeekDay(h3[oh.Close].Weekday), Time0000,
                                  minutesSinceMidnightToTime(h3[oh.Close].MinutesSinceMidnight))),
                 panic |-> FALSE]

\* the body of the range loop for one interval: oh is the loop's copy of the
\* two pointers, so every write goes to the cells the caller's slice points to.
\* A nil endpoint is dereferenced where the code first reads it: a panic.
HumanReadableInterval(h, oh) ==
    IF oh.Close = 0 THEN [heap |-> h, out |-> <<>>, panic |-> TRUE]
    ELSE
      LET h1 == IF h[oh.Close].MinutesSinceMidnight = 0
                THEN [setPreviousDay(h, oh.Close)
                         EXCEPT ![oh.Close].MinutesSinceMidnight = 1440]
                ELSE h
      IN  IF oh.Open = 0 THEN [heap |-> h1, out |-> <<>>, panic |-> TRUE]
          ELSE IF h1[oh.Open].Weekday = h1[oh.Close].Weekday
          THEN [heap  |-> h1,
                out   |-> <<DayEntry(getWeekDay(h1[oh.Open].Weekday),
                              minutesSinceMidnightToTime(h1[oh.Open].MinutesSinceMidnight),
                              minutesSinceMidnightToTime(h1[oh.Close].MinutesSinceMidnight))>>,
                panic |-> FALSE]
          ELSE
            LET first == DayEntry(getWeekDay(h1[oh.Open].Weekday),
                             minutesSinceMidnightToTime(h1[oh.Open].MinutesSinceMidnight),
                             Time2400)
                walk  == HumanReadableFullDays(setNextDay(h1, oh.Open), oh, <<first>>)
                h3    == walk.heap
            IN  [heap  |-> h3,
                 out   |-> Append(walk.out,
                              DayEntry(getWeekDay(h3[oh.Close].Weekday), Time0000,
                                  minutesSinceMidnightToTime(h3[oh.Close].MinutesSinceMidnight))),
                 panic |-> FALSE]

RECURSIVE AddEntries(_, _)
AddEntries(times, out) ==
    IF out = <<>> THEN times
    ELSE AddEntries(addTimeToWeek(times, out[1].Weekday, out[1].Open, out[1].Close),
                    Tail(out))

\* for _, oh := range ohs, from index i; emitted[k] is what interval k added
RECURSIVE HumanReadableLoop(_, _, _, _, _)
HumanReadableLoop(h, ohs, i, times, emitted) ==
    IF i > Len(ohs)
    THEN [heap |-> h, nil |-> FALSE, times |-> times, emitted |-> emitted, panic |-> FALSE]
    ELSE
      LET r == HumanReadableInterval(h, ohs[i])
      IN  IF r.panic
          THEN [heap |-> r.heap, nil |-> FALSE, times |-> <<>>, emitted |-> emitted,
                panic |-> TRUE]
          ELSE HumanReadableLoop(r.heap, ohs, i + 1, AddEntries(times, r.out),
                                 Append(emitted, r.out))

GetHumanReadableTimes(h, ohs) ==
    IF Len(ohs) = 0
    THEN [heap |-> h, nil |-> TRUE, times |-> <<>>, emitted |-> <<>>, panic |-> FALSE]
    ELSE HumanReadableLoop(h, ohs, 1, <<>>, <<>>)

\* --------------------------------------------------- GetOCPIOpeningTimes
OCPIRegularHours(weekday, periodBegin, periodEnd) ==
    [Weekday |-> weekday, PeriodBegin |-> periodBegin, PeriodEnd |-> periodEnd]

\* mutant: only the first interval is looked at
isTwentyFourSeven_FirstOnly(h, ohs) ==
    /\ Len(ohs) # 0
    /\ ~(ohs[1].Open = 0 \/ ohs[1].Close = 0)
    /\ ~(h[ohs[1].Open].Weekday # 1 \/ h[ohs[1].Close].Weekday # 7)
    /\ ~(\/ h[ohs[1].Open].MinutesSinceMidnight # 0
         \/ h[ohs[1].Close].MinutesSinceMidnight # 1440)

isTwentyFourSeven(h, ohs) ==
    /\ Len(ohs) # 0
    /\ \A i \in 1..Len(ohs) :
          /\ ~(ohs[i].Open = 0 \/ ohs[i].Close = 0)
          /\ ~(h[ohs[i].Open].Weekday # 1 \/ h[ohs[i].Close].Weekday # 7)
          /\ ~(\/ h[ohs[i].Open].MinutesSinceMidnight # 0
               \/ h[ohs[i].Close].MinutesSinceMidnight # 1440)

\* mutant: a day in between is entered under the closing weekday
RECURSIVE OCPIFullDays_ClosingWeekday(_, _, _)
OCPIFullDays_ClosingWeekday(h, oh, out) ==
    IF h[oh.Open].Weekday # h[oh.Close].Weekday
    THEN OCPIFullDays_ClosingWeekday(setNextDay(h, oh.Open), oh,
             Append(out, OCPIRegularHours(h[oh.Close].Weekday, Time0000, Time0000)))
    ELSE [heap |-> h, out |-> out]

RECURSIVE OCPIFullDays(_, _, _)
OCPIFullDays(h, oh, out) ==
    IF h[oh.Open].Weekday # h[oh.Close].Weekday
    THEN OCPIFullDays(setNextDay(h, oh.Open), oh,
             Append(out, OCPIRegularHours(h[oh.Open].Weekday, Time0000, Time0000)))
    ELSE [heap |-> h, out |-> out]

\* mutant: the case 1440 of the switch is missing
OCPIInterval_Keep1440(h, oh) ==
    IF oh.Close = 0 THEN [heap |-> h, out |-> <<>>, panic |-> TRUE]
    ELSE
      LET h1 == CASE h[oh.Close].MinutesSinceMidnight = 0 ->
                       setPreviousDay(h, oh.Close)
                  [] OTHER -> h
      IN  IF oh.Open = 0 THEN [heap |-> h1, out |-> <<>>, panic |-> TRUE]
          ELSE IF h1[oh.Open].Weekday = h1[oh.Close].Weekday
          THEN [heap  |-> h1,
                out   |-> <<OCPIRegularHours(h1[oh.Open].Weekday,
                              minutesSinceMidnightToTime(h1[oh.Open].MinutesSinceMidnight),
                              minutesSinceMidnightToTime(h1[oh.Close].MinutesSinceMidnight))>>,
                panic |-> FALSE]
          ELSE
            LET first == OCPIRegularHours(h1[oh.Open].Weekday,
                             minutesSinceMidnightToTime(h1[oh.Open].MinutesSinceMidnight),
                             Time0000)
                walk  == OCPIFullDays(setNextDay(h1, oh.Open), oh, <<first>>)
                h3    == walk.heap
            IN  [heap  |-> h3,
                 out   |-> Append(walk.out,
                              OCPIRegularHours(h3[oh.Close].Weekday, Time0000,
                                  minutesSinceMidnightToTime(h3[oh.Close].MinutesSinceMidnight))),
                 panic |-> FALSE]

\* the body of the range loop for one interval, as in GetHumanReadableTimes
OCPIInterval(h, oh) ==
    IF oh.Close = 0 THEN [heap |-> h, out |-> <<>>, panic |-> TRUE]
    ELSE
      LET h1 == CASE h[oh.Close].MinutesSinceMidnight = 0 ->
                       setPreviousDay(h, oh.Close)
                  [] h[oh.Close].MinutesSinceMidnight = 1440 ->
                       [h EXCEPT ![oh.Close].MinutesSinceMidnight = 0]
                  [] OTHER -> h
      IN  IF oh.Open = 0 THEN [heap |-> h1, out |-> <<>>, panic |-> TRUE]
          ELSE IF h1[oh.Open].Weekday = h1[oh.Close].Weekday
          THEN [heap  |-> h1,
                out   |-> <<OCPIRegularHours(h1[oh.Open].Weekday,
                              minutesSinceMidnightToTime(h1[oh.Open].MinutesSinceMidnight),
                              minutesSinceMidnightToTime(h1[oh.Close].MinutesSinceMidnight))>>,
                panic |-> FALSE]
          ELSE
            LET first == OCPIRegularHours(h1[oh.Open].Weekday,
                             minutesSinceMidnightToTime(h1[oh.Open].MinutesSinceMidnight),
                             Time0000)
                walk  == OCPIFullDays(setNextDay(h1, oh.Open), oh, <<first>>)
                h3    == walk.heap
            IN  [heap  |-> h3,
                 out   |-> Append(walk.out,
                              OCPIRegularHours(h3[oh.Close].Weekday, Time0000,
                                  minutesSinceMidnightToTime(h3[oh.Close].MinutesSinceMidnight))),
                 panic |-> FALSE]

RECURSIVE OCPILoop(_, _, _, _, _)
OCPILoop(h, ohs, i, regularHours, emitted) ==
    IF i > Len(ohs)
    THEN [heap |-> h, regularHours |-> regularHours, emitted |-> emitted, panic |-> FALSE]
    ELSE
      LET r == OCPIInterval(h, ohs[i])
      IN  IF r.panic
          THEN [heap |-> r.heap, regularHours |-> <<>>, emitted |-> emitted, panic |-> TRUE]
          ELSE OCPILoop(r.heap, ohs, i + 1, regularHours \o r.out, Append(emitted, r.out))

\* mutant: the check len(regularHours) == 0 is missing
GetOCPIOpeningTimes_NoEmptyCheck(h, ohs) ==
    IF isTwentyFourSeven(h, ohs)
    THEN [heap |-> h, TwentyFourSeven |-> TRUE, RegularHours |-> <<>>,
          emitted |-> <<>>, panic |-> FALSE]
    ELSE
      LET r == OCPILoop(h, ohs, 1, <<>>, <<>>)
      IN  IF r.panic
          THEN [heap |-> r.heap, TwentyFourSeven |-> FALSE, RegularHours |-> <<>>,
                emitted |-> r.emitted, panic |-> r.panic]
          ELSE [heap |-> r.heap, TwentyFourSeven |-> FALSE,
                RegularHours |-> <<r.regularHours>>,
                emitted |-> r.emitted, panic |-> FALSE]

\* RegularHours is the pointer: <<>> is nil, <<list>> points to the list
GetOCPIOpeningTimes(h, ohs) ==
    IF isTwentyFourSeven(h, ohs)
    THEN [heap |-> h, TwentyFourSeven |-> TRUE, RegularHours |-> <<>>,
          emitted |-> <<>>, panic |-> FALSE]
    ELSE
      LET r == OCPILoop(h, ohs, 1, <<>>, <<>>)
      IN  IF r.panic \/ Len(r.regularHours) = 0
          THEN [heap |-> r.heap, TwentyFourSeven |-> FALSE, RegularHours |-> <<>>,
                emitted |-> r.emitted, panic |-> r.panic]
          ELSE [heap |-> r.heap, TwentyFourSeven |-> FALSE,
                RegularHours |-> <<r.regularHours>>,
                emitted |-> r.emitted, panic |-> FALSE]

\* ------------------------------------------------------------- the state
VARIABLES
    heap,      \* the TimeInWeek cells; heap[1], heap[2] are TwentyFourSevenOH's
    ohs,       \* the caller's []OpeningHours: pairs of addresses into heap
    call,      \* the last call of the package: its argument and what it returned
    prevCall,  \* the call before it: its name, and its argument and result
               \* when the last call was applied to that result
    given,     \* the function and the texts a caller of one of the parsing
               \* functions is about to pass to it
    running    \* the calls in progress when two goroutines share the slice

vars == <<heap, ohs, call, prevCall, given, running>>

TimeInWeek(weekday, minutes) ==
    [Weekday |-> weekday, MinutesSinceMidnight |-> minutes]

\* the interval value with both endpoints present
Interval(ow, om, cw, cm) ==
    [Open |-> <<TimeInWeek(ow, om)>>, Close |-> <<TimeInWeek(cw, cm)>>]

\* var TwentyFourSevenOH: its two cells, and the struct of two pointers
TwentyFourSevenCells == <<TimeInWeek(1, 0), TimeInWeek(7, 1440)>>
TwentyFourSevenOH == [Open |-> 1, Close |-> 2]
TwentyFourSevenValue == Interval(1, 0, 7, 1440)

\* the value of a slice: what its pointers point to
Deref(h, a) == IF a = 0 THEN <<>> ELSE <<h[a]>>
SliceValue(h, s) ==
    [i \in 1..Len(s) |-> [Open |-> Deref(h, s[i].Open), Close |-> Deref(h, s[i].Close)]]

\* a slice with the values x, every present endpoint in a cell of its own
\* (&TimeInWeek{...}), appended to the cells h; interval g, if any, is the
\* exported TwentyFourSevenOH itself
RECURSIVE Allocate(_, _, _, _, _)
Allocate(x, g, i, h, s) ==
    IF i > Len(x) THEN [heap |-> h, ohs |-> s]
    ELSE IF i = g THEN Allocate(x, g, i + 1, h, Append(s, TwentyFourSevenOH))
    ELSE
      LET h1 == h \o x[i].Open
          o  == IF x[i].Open = <<>> THEN 0 ELSE Len(h1)
          h2 == h1 \o x[i].Close
          c  == IF x[i].Close = <<>> THEN 0 ELSE Len(h2)
      IN  Allocate(x, g, i + 1, h2, Append(s, [Open |-> o, Close |-> c]))

\* ------------------------------------------------------------ the inputs
Weekdays == 1..7
MinuteValues == {0, 485, 1440}

EndpointValues ==
    {<<>>} \cup {<<TimeInWeek(w, m)>> : w \in Weekdays, m \in MinuteValues}

\* every interval a caller can hold: each endpoint absent or legal
Intervals == [Open : EndpointValues, Close : EndpointValues]

\* the intervals of the examples of the documentation and the tests
ListedIntervals ==
    { TwentyFourSevenValue,
      Interval(7, 0, 1, 0),
      Interval(7, 0, 1, 600),
      Interval(1, 480, 2, 960),
      Interval(1, 480, 1, 960),
      Interval(2, 360, 2, 1200),
      Interval(2, 1200, 3, 240),
      Interval(3, 1439, 3, 1440),
      [Open |-> <<>>, Close |-> <<>>],
      [Open |-> <<TimeInWeek(1, 480)>>, Close |-> <<>>] }

\* the intervals of the sequences of two or more
PairedIntervals ==
    { TwentyFourSevenValue,
      Interval(7, 0, 1, 0),
      Interval(1, 480, 2, 960),
      Interval(2, 1200, 2, 360),
      [Open |-> <<TimeInWeek(1, 480)>>, Close |-> <<>>] }

RECURSIVE SeqsOfLen(_, _)
SeqsOfLen(S, n) ==
    IF n = 0 THEN {<<>>}
    ELSE {Append(q, e) : q \in SeqsOfLen(S, n - 1), e \in S}

\* the sequence of TestOpeningHoursSliceToString "multiple days"
ExampleSlice == <<Interval(1, 480, 1, 960), Interval(2, 360, 2, 1200)>>

InputSlices ==
    {<<iv>> : iv \in Intervals \cup ListedIntervals}
        \cup UNION {SeqsOfLen(PairedIntervals, n) : n \in 0..MaxLen}
        \cup {ExampleSlice}

\* strings the caller did not get from OpeningHoursSliceToString
RawEndpoint(w, hh, mm, ss) ==
    <<"W", w, "T">> \o hh \o <<":">> \o mm \o <<":">> \o ss

InputStrings ==
    { <<"x">>,
      <<",", "/", ",">>,
      RawEndpoint("9", <<"0", "8">>, <<"0", "0">>, <<"0", "0">>) \o <<"/">>,
      RawEndpoint("1", <<"0", "8">>, <<"0", "0">>, <<"0", "0">>) \o <<"/">>
          \o RawEndpoint("1", <<"2", "4">>, <<"0", "1">>, <<"0", "0">>),
      RawEndpoint("2", <<"0", "6">>, <<"3", "0">>, <<"5", "9">>) \o <<"/">>
          \o RawEndpoint("2", <<"2", "0">>, <<"0", "0">>, <<"0", "0">>) }

NoCall == [op |-> "none", arg |-> <<>>, ret |-> <<>>]

Named(c) == [op |-> c.op, arg |-> <<>>, ret |-> <<>>]

Remembered(c) ==
    IF c.op \in {"GetHumanReadableTimes", "GetOCPIOpeningTimes"} THEN Named(c) ELSE c

NoInput == [fn |-> "none", args |-> <<>>]

\* the caller holds a slice it built
Init ==
    /\ call = NoCall
    /\ prevCall = NoCall
    /\ given = NoInput
    /\ running = <<>>
    /\ \E x \in InputSlices :
          \E g \in {0} \cup {i \in 1..Len(x) : x[i] = TwentyFourSevenValue} :
             \E a \in {Allocate(x, g, 1, TwentyFourSevenCells, <<>>)} :
                heap = a.heap /\ ohs = a.ohs

\* a nil dereference panics; nothing runs after it
Panicked == call.op \in {"GetHumanReadableTimes", "GetOCPIOpeningTimes"} /\ call.ret.panic

\* OpeningHoursSliceToString(ohs)
Format ==
    /\ ~Panicked
    /\ \E x \in {SliceValue(heap, ohs)} :
          call' = [op |-> "OpeningHoursSliceToString", arg |-> x,
                   ret |-> OpeningHoursSliceToString(x)]
    /\ prevCall' = Remembered(call)
    /\ UNCHANGED <<heap, ohs, given, running>>

\* ohs, err = ParseOpeningHours(v), v the string just formatted or one the
\* caller was given; the caller keeps the returned slice on success
Parse ==
    /\ ~Panicked
    /\ \E v \in InputStrings \cup
                (IF call.op = "OpeningHoursSliceToString" THEN {call.ret} ELSE {}) :
        \E r \in {ParseOpeningHours(v)} :
          /\ call' = [op |-> "ParseOpeningHours", arg |-> v, ret |-> r,
                      formatted |-> (call.op = "OpeningHoursSliceToString"
                                        /\ v = call.ret)]
          /\ IF r.err = NoError
             THEN \E a \in {Allocate(r.ohs, 0, 1, SubSeq(heap, 1, 2), <<>>)} :
                     heap' = a.heap /\ ohs' = a.ohs
             ELSE UNCHANGED <<heap, ohs>>
          /\ prevCall' = IF call'.formatted THEN Remembered(call) ELSE Named(call)
    /\ UNCHANGED <<given, running>>

\* GetHumanReadableTimes(ohs)
HumanReadable ==
    /\ ~Panicked
    /\ \E r \in {GetHumanReadableTimes(heap, ohs)} :
          /\ heap' = r.heap
          /\ call' = [op |-> "GetHumanReadableTimes",
                      arg |-> SliceValue(heap, ohs),
                      ret |-> [nil |-> r.nil, times |-> r.times, panic |-> r.panic],
                      emitted |-> r.emitted]
    /\ prevCall' = Remembered(call)
    /\ UNCHANGED <<ohs, given, running>>

\* GetOCPIOpeningTimes(ohs)
OCPI ==
    /\ ~Panicked
    /\ \E r \in {GetOCPIOpeningTimes(heap, ohs)} :
          /\ heap' = r.heap
          /\ call' = [op |-> "GetOCPIOpeningTimes",
                      arg |-> SliceValue(heap, ohs),
                      ret |-> [TwentyFourSeven |-> r.TwentyFourSeven,
                               RegularHours |-> r.RegularHours, panic |-> r.panic],
                      emitted |-> r.emitted]
    /\ prevCall' = Remembered(call)
    /\ UNCHANGED <<ohs, given, running>>

Next == Format \/ Parse \/ HumanReadable \/ OCPI

Spec == Init /\ [][Next]_vars

\* ------------------------------------- the parsing functions on given texts
\* longest list of comma-separated segments given to ParseOpeningHours
MaxSegments == 3

Endpoints(open, close) == open \o <<"/">> \o close

\* a segment is empty, "/", well formed, or wrong in one of the ways the
\* error cases of the tests are
SegmentTexts ==
    { <<>>,
      <<"/">>,
      Endpoints(RawEndpoint("1", <<"0", "8">>, <<"0", "0">>, <<"0", "0">>),
                RawEndpoint("1", <<"1", "6">>, <<"0", "0">>, <<"0", "0">>)),
      <<"x">>,
      Endpoints(RawEndpoint("9", <<"0", "8">>, <<"0", "0">>, <<"0", "0">>), <<"/">>),
      Endpoints(RawEndpoint("9", <<"0", "8">>, <<"0", "0">>, <<"0", "0">>),
                RawEndpoint("1", <<"1", "6">>, <<"0", "0">>, <<"0", "0">>)),
      Endpoints(RawEndpoint("1", <<"0", "0">>, <<"0", "0">>, <<"0", "0">>),
                RawEndpoint("7", <<"2", "4">>, <<"0", "1">>, <<"0", "0">>)),
      Endpoints(RawEndpoint("0", <<"0", "8">>, <<"0", "0">>, <<"0", "0">>),
                RawEndpoint("1", <<"1", "6">>, <<"6", "0">>, <<"0", "0">>)) }

OpeningHoursTexts ==
    { Join(segs, <<",">>) :
        segs \in UNION {SeqsOfLen(SegmentTexts, n) : n \in 1..MaxSegments} }

HourTexts ==
    { <<"0", "0">>, <<"0">>, <<"7">>, <<"0", "8">>, <<"2", "3">>, <<"2", "4">>,
      <<"2", "5">>, <<"-", "1">>, <<"+", "5">>, <<"a", "a">>, <<>>,
      <<"0", "2", "4">> }

MinuteTexts ==
    { <<"0", "0">>, <<"0">>, <<"0", "1">>, <<"3", "0">>, <<"5", "9">>,
      <<"6", "0">>, <<"-", "1">>, <<"b", "b">>, <<>>, <<"+", "7">> }

\* the names of the switch of ParseStringWeekdayToTimeWeekday, monday first
EnglishWeekdays ==
    << <<"m", "o", "n", "d", "a", "y">>,
       <<"t", "u", "e", "s", "d", "a", "y">>,
       <<"w", "e", "d", "n", "e", "s", "d", "a", "y">>,
       <<"t", "h", "u", "r", "s", "d", "a", "y">>,
       <<"f", "r", "i", "d", "a", "y">>,
       <<"s", "a", "t", "u", "r", "d", "a", "y">>,
       <<"s", "u", "n", "d", "a", "y">> >>

Abbreviation(name) == SubSeq(name, 1, 3)

ToUpper(s) ==
    [i \in 1..Len(s) |->
        IF \E k \in 1..26 : LowerCase[k] = s[i]
        THEN UpperCase[CHOOSE k \in 1..26 : LowerCase[k] = s[i]]
        ELSE s[i]]

\* every name and abbreviation in lower case, in upper case, capitalised and
\* capitalised at the end ("friDAY"), and strings that are no weekday
WeekdayTexts ==
    LET names == {EnglishWeekdays[d] : d \in 1..7}
                    \cup {Abbreviation(EnglishWeekdays[d]) : d \in 1..7}
    IN  names
          \cup {ToUpper(n) : n \in names}
          \cup {ToUpper(SubSeq(n, 1, 1)) \o SubSeq(n, 2, Len(n)) : n \in names}
          \cup {SubSeq(n, 1, 3) \o ToUpper(SubSeq(n, 4, Len(n))) : n \in names}
          \cup { <<>>, <<"f", "u", "n", "d", "a", "y">>, <<"m", "o">>,
                 <<"m", "o", "n", "d">>, <<"s", "u", "n", "d", "a", "y", "s">>,
                 <<"7">>, <<" ", "s", "u", "n">> }

\* endpoint tokens of the pattern, with weekday digits in and out of 1..7,
\* clocks valid and not, and any seconds
EndpointTexts ==
    { RawEndpoint(w, hh, mm, ss) :
        w  \in {"0", "1", "7", "8", "9"},
        hh \in {<<"0", "0">>, <<"0", "8">>, <<"2", "3">>, <<"2", "4">>, <<"2", "5">>},
        mm \in {<<"0", "0">>, <<"3", "0">>, <<"5", "9">>, <<"6", "0">>},
        ss \in {<<"0", "0">>, <<"5", "9">>, <<"9", "9">>} }

\* tokens the pattern does not match
MalformedTexts ==
    { <<"W", "1", "T", "8", ":", "0", "0", ":", "0", "0">>,
      <<"w", "1", "T", "0", "8", ":", "0", "0", ":", "0", "0">>,
      <<"W", "1", "0", "T", "0", "8", ":", "0", "0", ":", "0", "0">>,
      <<"W", "1", "T", "0", "8", ":", "0", "0">>,
      <<"W", "1", "T", "0", "8", ":", "0", "0", ":", "0", "0", "Z">>,
      <<"W", "1", "T", "0", "8", "-", "0", "0", "-", "0", "0">>,
      <<"W", "x", "T", "0", "8", ":", "0", "0", ":", "0", "0">>,
      <<" ", "W", "1", "T", "0", "8", ":", "0", "0", ":", "0", "0">>,
      <<"W", "9", "T", "2", "5", ":", "0", "0", ":", "0">> }

\* one interval with one endpoint given
EndpointSegmentTexts ==
    UNION { {Endpoints(t, <<>>), Endpoints(<<>>, t)} :
               t \in EndpointTexts \cup MalformedTexts }

GivenInputs ==
    {[fn |-> "ParseOpeningHours", args |-> <<v>>] :
        v \in OpeningHoursTexts \cup EndpointSegmentTexts}
      \cup {[fn |-> "minutesSinceMidnightToTime", args |-> <<m>>] : m \in 0..1440}
      \cup {[fn |-> "ParseMinutesSinceMidnight", args |-> <<h, m>>] :
                h \in HourTexts, m \in MinuteTexts}
      \cup {[fn |-> "ParseStringWeekdayToTimeWeekday", args |-> <<d>>] :
                d \in WeekdayTexts}

\* a caller about to call one of the parsing functions
InitInputs ==
    /\ heap = TwentyFourSevenCells
    /\ ohs = <<>>
    /\ call = NoCall
    /\ prevCall = NoCall
    /\ running = <<>>
    /\ given \in GivenInputs

\* ohs, err = ParseOpeningHours(v) on the given text
ParseGiven ==
    /\ given.fn = "ParseOpeningHours"
    /\ call = NoCall
    /\ \E r \in {ParseOpeningHours(given.args[1])} :
          /\ call' = [op |-> "ParseOpeningHours", arg |-> given.args[1], ret |-> r,
                      formatted |-> FALSE]
          /\ IF r.err = NoError
             THEN \E a \in {Allocate(r.ohs, 0, 1, SubSeq(heap, 1, 2), <<>>)} :
                     heap' = a.heap /\ ohs' = a.ohs
             ELSE UNCHANGED <<heap, ohs>>
    /\ prevCall' = Named(call)
    /\ UNCHANGED <<given, running>>

\* ParseMinutesSinceMidnight(v1, v2) on the given texts
MinutesGiven ==
    /\ given.fn = "ParseMinutesSinceMidnight"
    /\ call = NoCall
    /\ call' = [op |-> "ParseMinutesSinceMidnight", arg |-> given.args,
                ret |-> ParseMinutesSinceMidnight(given.args[1], given.args[2])]
    /\ prevCall' = Named(call)
    /\ UNCHANGED <<heap, ohs, given, running>>

\* ParseStringWeekdayToTimeWeekday(dayStr) on the given text
WeekdayGiven ==
    /\ given.fn = "ParseStringWeekdayToTimeWeekday"
    /\ call = NoCall
    /\ call' = [op |-> "ParseStringWeekdayToTimeWeekday", arg |-> given.args[1],
                ret |-> ParseStringWeekdayToTimeWeekday(given.args[1])]
    /\ prevCall' = Named(call)
    /\ UNCHANGED <<heap, ohs, given, running>>

\* OpeningHoursSliceToString on the slice ParseOpeningHours just returned
FormatParsed ==
    /\ call.op = "ParseOpeningHours"
    /\ call.ret.err = NoError
    /\ Format

\* minutesSinceMidnightToTime(m) on the given minutes
RenderGiven ==
    /\ given.fn = "minutesSinceMidnightToTime"
    /\ call = NoCall
    /\ call' = [op |-> "minutesSinceMidnightToTime", arg |-> given.args[1],
                ret |-> minutesSinceMidnightToTime(given.args[1])]
    /\ prevCall' = Named(call)
    /\ UNCHANGED <<heap, ohs, given, running>>

\* ParseMinutesSinceMidnight on the hour and the minute text just rendered
ParseRendered ==
    /\ call.op = "minutesSinceMidnightToTime"
    /\ \E parts \in {Split(call.ret, ":")} :
          call' = [op |-> "ParseMinutesSinceMidnight", arg |-> <<parts[1], parts[2]>>,
                   ret |-> ParseMinutesSinceMidnight(parts[1], parts[2])]
    /\ prevCall' = call
    /\ UNCHANGED <<heap, ohs, given, running>>

NextInputs ==
    \/ ParseGiven \/ MinutesGiven \/ WeekdayGiven
    \/ FormatParsed \/ RenderGiven \/ ParseRendered

SpecInputs == InitInputs /\ [][NextInputs]_vars

\* ------------------------------------ two goroutines sharing one slice
\* most entries one call collects before it is cut off
MaxEntries == 4

\* the slices the two goroutines are given
SharedSlices ==
    { <<Interval(1, 480, 1, 960)>>,
      <<Interval(1, 480, 2, 960)>>,
      <<Interval(7, 0, 1, 0)>>,
      <<Interval(2, 1200, 3, 1440)>>,
      <<[Open |-> <<TimeInWeek(1, 480)>>, Close |-> <<>>]>>,
      <<[Open |-> <<>>, Close |-> <<TimeInWeek(1, 480)>>]>>,
      <<TwentyFourSevenValue>>,
      <<>>,
      ExampleSlice,
      <<Interval(6, 485, 7, 0), Interval(7, 485, 1, 485)>> }

\* a call that has not started: fn(x), with x the value of the slice then
Goroutine(fn, x) ==
    [fn |-> fn, pc |-> "start", i |-> 0, out |-> <<>>, arg |-> x, ret |-> <<>>]

\* two goroutines about to call GetHumanReadableTimes or GetOCPIOpeningTimes
\* on the same slice
InitConcurrent ==
    /\ call = NoCall
    /\ prevCall = NoCall
    /\ given = NoInput
    /\ \E x \in SharedSlices :
          \E a \in {Allocate(x, 0, 1, TwentyFourSevenCells, <<>>)} :
             /\ heap = a.heap
             /\ ohs = a.ohs
             /\ \E f1, f2 \in {"GetHumanReadableTimes", "GetOCPIOpeningTimes"} :
                   running = <<Goroutine(f1, x), Goroutine(f2, x)>>

\* a nil dereference in either goroutine ends the program
Crashed == \E g \in 1..Len(running) : running[g].pc = "panic"

At(g, pc) == ~Crashed /\ g \in 1..Len(running) /\ running[g].pc = pc

HumanReadableCall(g) == running[g].fn = "GetHumanReadableTimes"

\* the goroutine's copy of the two pointers of the interval it is at
LoopCopy(g) == ohs[running[g].i]

Goto(g, pc) == running' = [running EXCEPT ![g].pc = pc]

\* one more entry for the goroutine's result
Emit(g, entry, pc, i) ==
    /\ Len(running[g].out) < MaxEntries
    /\ running' = [running EXCEPT ![g].out = Append(@, entry),
                                  ![g].pc = pc, ![g].i = i]

\* if len(ohs) == 0 { return nil }  /  if isTwentyFourSeven(ohs) { return ... }
Begin(g) ==
    /\ At(g, "start")
    /\ IF HumanReadableCall(g)
       THEN IF Len(ohs) = 0
            THEN running' = [running EXCEPT ![g].pc = "done",
                     ![g].ret = [nil |-> TRUE, times |-> <<>>, panic |-> FALSE]]
            ELSE running' = [running EXCEPT ![g].pc = "range", ![g].i = 1]
       ELSE IF isTwentyFourSeven(heap, ohs)
            THEN running' = [running EXCEPT ![g].pc = "done",
                     ![g].ret = [TwentyFourSeven |-> TRUE, RegularHours |-> <<>>,
                                 panic |-> FALSE]]
            ELSE running' = [running EXCEPT ![g].pc = "range", ![g].i = 1]
    /\ UNCHANGED <<heap, ohs, call, prevCall, given>>

\* for _, oh := range ohs: the read of oh.Close.MinutesSinceMidnight
ReadClose(g) ==
    /\ At(g, "range")
    /\ running[g].i <= Len(ohs)
    /\ IF LoopCopy(g).Close = 0 THEN Goto(g, "panic")
       ELSE IF heap[LoopCopy(g).Close].MinutesSinceMidnight = 0
       THEN Goto(g, "previous")
       ELSE IF ~HumanReadableCall(g)
               /\ heap[LoopCopy(g).Close].MinutesSinceMidnight = 1440
       THEN Goto(g, "zero")
       ELSE Goto(g, "compare")
    /\ UNCHANGED <<heap, ohs, call, prevCall, given>>

\* setPreviousDay(&oh.Close.Weekday)
Previous(g) ==
    /\ At(g, "previous")
    /\ heap' = setPreviousDay(heap, LoopCopy(g).Close)
    /\ Goto(g, IF HumanReadableCall(g) THEN "endOfDay" ELSE "compare")
    /\ UNCHANGED <<ohs, call, prevCall, given>>

\* oh.Close.MinutesSinceMidnight = 1440
EndOfDay(g) ==
    /\ At(g, "endOfDay")
    /\ heap' = [heap EXCEPT ![LoopCopy(g).Close].MinutesSinceMidnight = 1440]
    /\ Goto(g, "compare")
    /\ UNCHANGED <<ohs, call, prevCall, given>>

\* oh.Close.MinutesSinceMidnight = 0
Zero(g) ==
    /\ At(g, "zero")
    /\ heap' = [heap EXCEPT ![LoopCopy(g).Close].MinutesSinceMidnight = 0]
    /\ Goto(g, "compare")
    /\ UNCHANGED <<ohs, call, prevCall, given>>

\* if oh.Open.Weekday == oh.Close.Weekday
Compare(g) ==
    /\ At(g, "compare")
    /\ IF LoopCopy(g).Open = 0 THEN Goto(g, "panic")
       ELSE IF heap[LoopCopy(g).Open].Weekday = heap[LoopCopy(g).Close].Weekday
       THEN Goto(g, "same")
       ELSE Goto(g, "first")
    /\ UNCHANGED <<heap, ohs, call, prevCall, given>>

\* the entry of an interval within one day
Same(g) ==
    /\ At(g, "same")
    /\ LET open  == heap[LoopCopy(g).Open]
           close == heap[LoopCopy(g).Close]
       IN  Emit(g,
                IF HumanReadableCall(g)
                THEN DayEntry(getWeekDay(open.Weekday),
                         minutesSinceMidnightToTime(open.MinutesSinceMidnight),
                         minutesSinceMidnightToTime(close.MinutesSinceMidnight))
                ELSE OCPIRegularHours(open.Weekday,
                         minutesSinceMidnightToTime(open.MinutesSinceMidnight),
                         minutesSinceMidnightToTime(close.MinutesSinceMidnight)),
                "range", running[g].i + 1)
    /\ UNCHANGED <<heap, ohs, call, prevCall, given>>

\* the entry of the opening day
First(g) ==
    /\ At(g, "first")
    /\ LET open == heap[LoopCopy(g).Open]
       IN  Emit(g,
                IF HumanReadableCall(g)
                THEN DayEntry(getWeekDay(open.Weekday),
                         minutesSinceMidnightToTime(open.MinutesSinceMidnight),
                         Time2400)
                ELSE OCPIRegularHours(open.Weekday,
                         minutesSinceMidnightToTime(open.MinutesSinceMidnight),
                         Time0000),
                "next", running[g].i)
    /\ UNCHANGED <<heap, ohs, call, prevCall, given>>

\* setNextDay(&oh.Open.Weekday)
NextDay(g) ==
    /\ At(g, "next")
    /\ heap' = setNextDay(heap, LoopCopy(g).Open)
    /\ Goto(g, "walk")
    /\ UNCHANGED <<ohs, call, prevCall, given>>

\* for oh.Open.Weekday != oh.Close.Weekday
Walk(g) ==
    /\ At(g, "walk")
    /\ IF heap[LoopCopy(g).Open].Weekday # heap[LoopCopy(g).Close].Weekday
       THEN Goto(g, "full")
       ELSE Goto(g, "last")
    /\ UNCHANGED <<heap, ohs, call, prevCall, given>>

\* the entry of a day in between
Full(g) ==
    /\ At(g, "full")
    /\ LET open == heap[LoopCopy(g).Open]
       IN  Emit(g,
                IF HumanReadableCall(g)
                THEN DayEntry(getWeekDay(open.Weekday), Time0000, Time2400)
                ELSE OCPIRegularHours(open.Weekday, Time0000, Time0000),
                "next", running[g].i)
    /\ UNCHANGED <<heap, ohs, call, prevCall, given>>

\* the entry of the closing day
Last(g) ==
    /\ At(g, "last")
    /\ LET close == heap[LoopCopy(g).Close]
       IN  Emit(g,
                IF HumanReadableCall(g)
                THEN DayEntry(getWeekDay(close.Weekday), Time0000,
                         minutesSinceMidnightToTime(close.MinutesSinceMidnight))
                ELSE OCPIRegularHours(close.Weekday, Time0000,
                         minutesSinceMidnightToTime(close.MinutesSinceMidnight)),
                "range", running[g].i + 1)
    /\ UNCHANGED <<heap, ohs, call, prevCall, given>>

\* return openingTimes  /  return OCPIOpeningTimes{...}
Return(g) ==
    /\ At(g, "range")
    /\ running[g].i > Len(ohs)
    /\ running' = [running EXCEPT ![g].pc = "done",
          ![g].ret =
             IF HumanReadableCall(g)
             THEN [nil |-> FALSE, times |-> AddEntries(<<>>, running[g].out),
                   panic |-> FALSE]
             ELSE [TwentyFourSeven |-> FALSE,
                   RegularHours |-> IF Len(running[g].out) = 0 THEN <<>>
                                    ELSE <<running[g].out>>,
                   panic |-> FALSE]]
    /\ UNCHANGED <<heap, ohs, call, prevCall, given>>

NextConcurrent ==
    \E g \in 1..2 :
       \/ Begin(g) \/ ReadClose(g) \/ Previous(g) \/ EndOfDay(g) \/ Zero(g)
       \/ Compare(g) \/ Same(g) \/ First(g) \/ NextDay(g) \/ Walk(g)
       \/ Full(g) \/ Last(g) \/ Return(g)

SpecConcurrent == InitConcurrent /\ [][NextConcurrent]_vars

\* ------------------------- GetHumanReadableTimes(s string), statement by statement
\* times[weekday] = append(times[weekday],
\*     fmt.Sprintf("open: %s, close: %s", openingTime, closingTime))
addTimeToWeekString(times, weekday, openingTime, closingTime) ==
    [k \in (DOMAIN times) \cup {weekday} |->
        IF k = weekday
        THEN Append(IF k \in DOMAIN times THEN times[k] ELSE <<>>,
                    <<"o", "p", "e", "n", ":", " ">> \o openingTime
                       \o <<",", " ", "c", "l", "o", "s", "e", ":", " ">> \o closingTime)
        ELSE times[k]]

\* mutant: an end at 00:00 stays on its weekday
getHumanReadableTime_EndAsGiven(v, endTime) ==
    LET matches == FindStringSubmatch(v)
    IN  IF Len(matches) < 2
        THEN [weekInt |-> 0, weekday |-> "", time |-> <<>>,
              err |-> <<Lit("invalid value '"), Tok(v), Lit("'")>>]
        ELSE [weekInt |-> Atoi(matches[2]).val,
              weekday |-> getWeekDay(Atoi(matches[2]).val),
              time    |-> matches[3] \o <<":">> \o matches[4],
              err     |-> NoError]

\* the weekday number, its name and the clock HH:MM of an endpoint; an end at
\* 00:00 is 24:00 of the weekday before.  The weekday digit is not validated.
getHumanReadableTime(v, endTime) ==
    LET matches == FindStringSubmatch(v)
    IN  IF Len(matches) < 2
        THEN [weekInt |-> 0, weekday |-> "", time |-> <<>>,
              err |-> <<Lit("invalid value '"), Tok(v), Lit("'")>>]
        ELSE
          LET digit   == Atoi(matches[2]).val
              hours   == matches[3]
              minutes == matches[4]
              atZero  == hours = <<"0", "0">> /\ minutes = <<"0", "0">> /\ endTime
              weekInt == IF atZero
                         THEN (IF digit - 1 < 1 THEN 7 ELSE digit - 1)
                         ELSE digit
          IN  [weekInt |-> weekInt,
               weekday |-> getWeekDay(weekInt),
               time    |-> (IF atZero THEN <<"2", "4">> ELSE hours) \o <<":">> \o minutes,
               err     |-> NoError]

\* endpoint tokens of the pattern; the function reads the weekday digit and
\* the clock as they are
StringEndpointTexts ==
    { RawEndpoint(w, c[1], c[2], <<"0", "0">>) :
        w \in {"0", "1", "3", "7", "8", "9"},
        c \in { <<<<"0", "0">>, <<"0", "0">>>>,
                <<<<"0", "8">>, <<"0", "5">>>>,
                <<<<"2", "4">>, <<"0", "0">>>> } }

\* segments of the tests, put together in lists
StringSegmentTexts ==
    { <<>>,
      <<"i", "n", "v", "a", "l", "i", "d">>,
      Endpoints(RawEndpoint("1", <<"0", "8">>, <<"0", "0">>, <<"0", "0">>),
                RawEndpoint("1", <<"1", "2">>, <<"0", "0">>, <<"0", "0">>)),
      Endpoints(RawEndpoint("1", <<"1", "3">>, <<"0", "0">>, <<"0", "0">>),
                RawEndpoint("2", <<"0", "0">>, <<"0", "0">>, <<"0", "0">>)),
      Endpoints(RawEndpoint("7", <<"2", "0">>, <<"0", "0">>, <<"0", "0">>),
                RawEndpoint("1", <<"0", "8">>, <<"0", "5">>, <<"0", "0">>)),
      Endpoints(RawEndpoint("1", <<"0", "0">>, <<"0", "0">>, <<"0", "0">>),
                RawEndpoint("7", <<"2", "4">>, <<"0", "0">>, <<"0", "0">>)) }

StringTexts ==
    { Endpoints(o, c) : o, c \in StringEndpointTexts }
      \cup { Endpoints(o, <<>>) : o \in StringEndpointTexts }
      \cup { Endpoints(<<>>, c) : c \in StringEndpointTexts }
      \cup { <<"/">>,
             RawEndpoint("1", <<"0", "8">>, <<"0", "0">>, <<"0", "0">>),
             Endpoints(Endpoints(<<"a">>, <<"b">>), <<"c">>) }
      \cup UNION { { Join(q, <<",">>) : q \in SeqsOfLen(StringSegmentTexts, n) } :
                     n \in 1..MaxLen }

InitString ==
    /\ heap = TwentyFourSevenCells
    /\ ohs = <<>>
    /\ call = NoCall
    /\ prevCall = NoCall
    /\ running = <<>>
    /\ given \in {[fn |-> "GetHumanReadableTimes", args |-> <<v>>] : v \in StringTexts}

\* the frame of the call: the segments, the index of the range loop, the map
\* and the variables of the walk over the days
Frame(pc, strs, i, openingTimes, currentWeekInt, closing, seen) ==
    [pc |-> pc, strs |-> strs, i |-> i, openingTimes |-> openingTimes,
     currentWeekInt |-> currentWeekInt, closing |-> closing, seen |-> seen]

NoEndpoint == [weekInt |-> 0, weekday |-> "", time |-> <<>>, err |-> NoError]

InRange == running # <<>> /\ running[1].pc = "range"

InWalk == running # <<>> /\ running[1].pc = "walk"

\* the segment the range loop is at has two endpoints and both are read
Readable(f) ==
    /\ f.i <= Len(f.strs)
    /\ f.strs[f.i] # <<>>
    /\ Len(Split(f.strs[f.i], "/")) = 2
    /\ getHumanReadableTime(Split(f.strs[f.i], "/")[1], FALSE).err = NoError
    /\ getHumanReadableTime(Split(f.strs[f.i], "/")[2], TRUE).err = NoError

Returned(f, nil, times, err) ==
    /\ call' = [op |-> "GetHumanReadableTimes(s string)", arg |-> given.args[1],
                ret |-> [nil |-> nil, times |-> times, err |-> err]]
    /\ prevCall' = Named(call)
    /\ running' = <<>>
    /\ UNCHANGED <<heap, ohs, given>>

\* strs := strings.Split(s, ","); openingTimes := make(map[string][]string)
StringCall ==
    /\ given.fn = "GetHumanReadableTimes"
    /\ running = <<>>
    /\ call = NoCall
    /\ running' = <<Frame("range", Split(given.args[1], ","), 1, <<>>, 0, NoEndpoint, {})>>
    /\ UNCHANGED <<heap, ohs, call, prevCall, given>>

\* if str == "" { continue }
SkipEmpty ==
    /\ InRange
    /\ \E f \in {running[1]} :
          /\ f.i <= Len(f.strs)
          /\ f.strs[f.i] = <<>>
          /\ running' = <<[f EXCEPT !.i = f.i + 1]>>
    /\ UNCHANGED <<heap, ohs, call, prevCall, given>>

\* the three returns of nil and "invalid opening hours string"
ReturnInvalid ==
    /\ InRange
    /\ \E f \in {running[1]} :
          /\ f.i <= Len(f.strs)
          /\ f.strs[f.i] # <<>>
          /\ ~Readable(f)
          /\ Returned(f, TRUE, <<>>,
                      <<Lit("invalid opening hours string '"), Tok(f.strs[f.i]), Lit("'")>>)

\* openingWeekInt == closingWeekInt
AddSameDay ==
    /\ InRange
    /\ \E f \in {running[1]} :
          /\ Readable(f)
          /\ \E o \in {getHumanReadableTime(Split(f.strs[f.i], "/")[1], FALSE)},
                c \in {getHumanReadableTime(Split(f.strs[f.i], "/")[2], TRUE)} :
                /\ o.weekInt = c.weekInt
                /\ running' = <<[f EXCEPT
                      !.openingTimes = addTimeToWeekString(@, o.weekday, o.time, c.time),
                      !.i = f.i + 1]>>
    /\ UNCHANGED <<heap, ohs, call, prevCall, given>>

\* the else branch up to the loop: the opening day until 24:00, and
\* currentWeekInt := openingWeekInt%7 + 1
AddOpeningDay ==
    /\ InRange
    /\ \E f \in {running[1]} :
          /\ Readable(f)
          /\ \E o \in {getHumanReadableTime(Split(f.strs[f.i], "/")[1], FALSE)},
                c \in {getHumanReadableTime(Split(f.strs[f.i], "/")[2], TRUE)} :
                /\ o.weekInt # c.weekInt
                /\ running' = <<[f EXCEPT
                      !.pc = "walk",
                      !.openingTimes = addTimeToWeekString(@, o.weekday, o.time, Time2400),
                      !.currentWeekInt = (o.weekInt % 7) + 1,
                      !.closing = c,
                      !.seen = {}]>>
    /\ UNCHANGED <<heap, ohs, call, prevCall, given>>

\* one turn of  for currentWeekInt != closingWeekInt .  The test reads only
\* currentWeekInt and closingWeekInt; the run is followed until the test is
\* made on a currentWeekInt it was already made on.
AddFullDay ==
    /\ InWalk
    /\ \E f \in {running[1]} :
          /\ f.currentWeekInt # f.closing.weekInt
          /\ f.currentWeekInt \notin f.seen
          /\ running' = <<[f EXCEPT
                !.openingTimes =
                    addTimeToWeekString(@, getWeekDay(f.currentWeekInt), Time0000, Time2400),
                !.currentWeekInt = (f.currentWeekInt % 7) + 1,
                !.seen = f.seen \cup {f.currentWeekInt}]>>
    /\ UNCHANGED <<heap, ohs, call, prevCall, given>>

\* the loop is left: the closing day from 00:00
AddClosingDay ==
    /\ InWalk
    /\ \E f \in {running[1]} :
          /\ f.currentWeekInt = f.closing.weekInt
          /\ running' = <<[f EXCEPT
                !.pc = "range",
                !.openingTimes =
                    addTimeToWeekString(@, f.closing.weekday, Time0000, f.closing.time),
                !.i = f.i + 1]>>
    /\ UNCHANGED <<heap, ohs, call, prevCall, given>>

\* return openingTimes, nil
ReturnTimes ==
    /\ InRange
    /\ \E f \in {running[1]} :
          /\ f.i > Len(f.strs)
          /\ Returned(f, FALSE, f.openingTimes, NoError)

NextString ==
    \/ StringCall \/ SkipEmpty \/ ReturnInvalid \/ AddSameDay
    \/ AddOpeningDay \/ AddFullDay \/ AddClosingDay \/ ReturnTimes

SpecString == InitString /\ [][NextString]_vars

\* ============================================================== claims
DaySplitting == {"GetHumanReadableTimes", "GetOCPIOpeningTimes"}

DayName == <<"monday", "tuesday", "wednesday", "thursday", "friday", "saturday", "sunday">>

PrevWeekday(w) == IF w = 1 THEN 7 ELSE w - 1

\* the k-th weekday of a walk that starts on weekday w, 7 followed by 1
WalkDay(w, k) == ((w + k - 2) % 7) + 1

\* HH:MM of m minutes, digit by digit
ClockText(m) ==
    <<Digits[(m \div 600) + 1], Digits[((m \div 60) % 10) + 1], ":",
      Digits[((m % 60) \div 10) + 1], Digits[(m % 10) + 1]>>

\* the close of an interval after the close-at-00:00 normalization
NormalizedClose(c) ==
    IF c.MinutesSinceMidnight = 0 THEN TimeInWeek(PrevWeekday(c.Weekday), 1440) ELSE c

LegalEndpoint(e) ==
    e = <<>> \/ (e[1].Weekday \in 1..7 /\ e[1].MinutesSinceMidnight \in 0..1440)

LegalSlice(x) ==
    \A i \in 1..Len(x) : LegalEndpoint(x[i].Open) /\ LegalEndpoint(x[i].Close)

\* the day breakdown lists the range of entry e under e's weekday
ListedInTimes(times, e) ==
    /\ e.Weekday \in DOMAIN times
    /\ \E j \in 1..Len(times[e.Weekday]) :
          times[e.Weekday][j] = [Open |-> e.Open, Close |-> e.Close]

\* C1: parsing the string formatted from a legal sequence succeeds and returns
\* a sequence equal to it: same length, order and endpoints, absent endpoints
\* still absent.
C1_ParseOfFormat ==
    (call.op = "ParseOpeningHours" /\ call.formatted /\ LegalSlice(prevCall.arg))
    => /\ call.arg = prevCall.ret
       /\ call.ret.err = NoError
       /\ ~call.ret.nil
       /\ Len(call.ret.ohs) = Len(prevCall.arg)
       /\ \A i \in 1..Len(prevCall.arg) : call.ret.ohs[i] = prevCall.arg[i]

C1_Witness ==
    /\ call.op = "ParseOpeningHours" /\ call.formatted
    /\ Len(prevCall.arg) = 2
    /\ prevCall.arg[1] = [Open |-> <<TimeInWeek(1, 480)>>, Close |-> <<>>]
    /\ prevCall.arg[2] = TwentyFourSevenValue
    /\ call.ret.ohs = prevCall.arg

\* C2: formatting what ParseOpeningHours returned for a string that
\* OpeningHoursSliceToString produced gives that string back, and the parse
\* has one entry per comma-separated interval.
C2_FormatOfParse ==
    (/\ call.op = "OpeningHoursSliceToString"
     /\ prevCall.op = "ParseOpeningHours"
     /\ prevCall.formatted
     /\ prevCall.ret.err = NoError)
    => /\ call.arg = prevCall.ret.ohs
       /\ call.ret = prevCall.arg
       /\ prevCall.arg # <<>> =>
             Len(prevCall.ret.ohs) = Len(Split(prevCall.arg, ","))

\* "W1T08:00:00/W1T16:00:00,W2T06:00:00/W2T20:00:00"
ExampleString ==
    RawEndpoint("1", <<"0", "8">>, <<"0", "0">>, <<"0", "0">>) \o <<"/">>
        \o RawEndpoint("1", <<"1", "6">>, <<"0", "0">>, <<"0", "0">>) \o <<",">>
        \o RawEndpoint("2", <<"0", "6">>, <<"0", "0">>, <<"0", "0">>) \o <<"/">>
        \o RawEndpoint("2", <<"2", "0">>, <<"0", "0">>, <<"0", "0">>)

C2_Witness ==
    /\ call.op = "OpeningHoursSliceToString"
    /\ prevCall.op = "ParseOpeningHours" /\ prevCall.formatted
    /\ prevCall.arg = ExampleString
    /\ prevCall.ret.ohs = ExampleSlice
    /\ call.ret = ExampleString

\* C3: a day-splitting call that returns leaves every endpoint of the caller's
\* intervals with the value it had before the call.
C3_CallerIntervalsUnchanged ==
    (call.op \in DaySplitting /\ ~call.ret.panic)
    => SliceValue(heap, ohs) = call.arg

\* C4: in GetHumanReadableTimes an interval whose open weekday differs from its
\* normalized close weekday gives (open.time, 24:00) on the open weekday, a full
\* day on every weekday strictly between, and (00:00, close.time) on the close
\* weekday: ((close.weekday - open.weekday) mod 7) + 1 entries; the 24/7
\* interval gives seven full days.
C4_MultiDayBreakdown ==
    (call.op = "GetHumanReadableTimes" /\ ~call.ret.panic)
    => /\ \A i \in 1..Len(call.arg) :
            LET o == call.arg[i].Open[1]
                c == NormalizedClose(call.arg[i].Close[1])
                e == call.emitted[i]
                n == ((c.Weekday - o.Weekday) % 7) + 1
            IN  o.Weekday # c.Weekday =>
                  /\ Len(e) = n
                  /\ e[1] = [Weekday |-> DayName[o.Weekday],
                             Open |-> ClockText(o.MinutesSinceMidnight),
                             Close |-> Time2400]
                  /\ \A k \in 2..(n - 1) :
                        e[k] = [Weekday |-> DayName[WalkDay(o.Weekday, k)],
                                Open |-> Time0000, Close |-> Time2400]
                  /\ e[n] = [Weekday |-> DayName[c.Weekday],
                             Open |-> Time0000,
                             Close |-> ClockText(c.MinutesSinceMidnight)]
                  /\ \A k \in 1..n : ListedInTimes(call.ret.times, e[k])
       /\ call.arg = <<TwentyFourSevenValue>> =>
            /\ DOMAIN call.ret.times = {DayName[d] : d \in 1..7}
            /\ \A d \in 1..7 :
                  call.ret.times[DayName[d]] = <<TimeRange(Time0000, Time2400)>>

C4_Witness ==
    /\ call.op = "GetHumanReadableTimes" /\ ~call.ret.panic
    /\ \E i \in 1..Len(call.arg) :
          /\ call.arg[i].Open[1].Weekday = 6
          /\ call.arg[i].Close[1] = TimeInWeek(2, 485)
          /\ Len(call.emitted[i]) = 4
          /\ call.emitted[i][3].Weekday = "monday"

\* C5: in both day-splitting calls an interval whose close is at minute 0 ends
\* on the previous weekday (1 wraps to 7) as end of day; open (7,0) close (1,0)
\* gives one entry, on Sunday, closing at 24:00 in the day breakdown and with
\* PeriodEnd 00:00 in the OCPI projection, and nothing on Monday.
C5_CloseAtMidnightIsPreviousDay ==
    (call.op \in DaySplitting /\ ~call.ret.panic)
    => /\ \A i \in 1..Len(call.arg) :
            call.arg[i].Close[1].MinutesSinceMidnight = 0 =>
              LET o == call.arg[i].Open[1]
                  p == PrevWeekday(call.arg[i].Close[1].Weekday)
                  e == call.emitted[i]
                  n == ((p - o.Weekday) % 7) + 1
              IN  /\ Len(e) = n
                  /\ call.op = "GetHumanReadableTimes" =>
                        e[n].Weekday = DayName[p] /\ e[n].Close = Time2400
                  /\ call.op = "GetOCPIOpeningTimes" =>
                        e[n].Weekday = p /\ e[n].PeriodEnd = Time0000
       /\ call.arg = <<Interval(7, 0, 1, 0)>> =>
            /\ call.op = "GetHumanReadableTimes" =>
                  /\ DOMAIN call.ret.times = {"sunday"}
                  /\ call.ret.times["sunday"] = <<TimeRange(Time0000, Time2400)>>
            /\ call.op = "GetOCPIOpeningTimes" =>
                  /\ ~call.ret.TwentyFourSeven
                  /\ call.ret.RegularHours =
                        <<<<OCPIRegularHours(7, Time0000, Time0000)>>>>

C5_Witness ==
    /\ call.op = "GetOCPIOpeningTimes" /\ ~call.ret.panic
    /\ call.arg = <<Interval(7, 0, 1, 0)>>
    /\ Len(call.ret.RegularHours[1]) = 1
    /\ call.ret.RegularHours[1][1].Weekday = 7

\* C6: in GetHumanReadableTimes an interval whose open weekday equals its
\* normalized close weekday gives exactly one entry, on that weekday, equal to
\* (open.time, close.time), whichever clock time is the larger.
C6_SameDayBreakdown ==
    (call.op = "GetHumanReadableTimes" /\ ~call.ret.panic)
    => \A i \in 1..Len(call.arg) :
          LET o == call.arg[i].Open[1]
              c == NormalizedClose(call.arg[i].Close[1])
              e == call.emitted[i]
          IN  o.Weekday = c.Weekday =>
                /\ e = <<[Weekday |-> DayName[o.Weekday],
                          Open |-> ClockText(o.MinutesSinceMidnight),
                          Close |-> ClockText(c.MinutesSinceMidnight)]>>
                /\ ListedInTimes(call.ret.times, e[1])

C6_Witness ==
    /\ call.op = "GetHumanReadableTimes" /\ ~call.ret.panic
    /\ \E i \in 1..Len(call.arg) :
          /\ call.arg[i] = Interval(7, 1440, 7, 485)
          /\ call.emitted[i] = <<[Weekday |-> "sunday", Open |-> Time2400,
                                  Close |-> <<"0", "8", ":", "0", "5">>]>>

\* C7: GetOCPIOpeningTimes returns TwentyFourSeven = true with no RegularHours
\* exactly when its input is non-empty and every interval is open (1,0) close
\* (7,1440); every other result has TwentyFourSeven = false.
AllTwentyFourSeven(x) ==
    x # <<>> /\ \A i \in 1..Len(x) : x[i] = TwentyFourSevenValue

C7_TwentyFourSevenIff ==
    call.op = "GetOCPIOpeningTimes"
    => /\ (/\ ~call.ret.panic
           /\ call.ret.TwentyFourSeven
           /\ call.ret.RegularHours = <<>>) <=> AllTwentyFourSeven(call.arg)
       /\ ~AllTwentyFourSeven(call.arg) => ~call.ret.TwentyFourSeven

C7_Witness ==
    /\ call.op = "GetOCPIOpeningTimes"
    /\ Len(call.arg) = 2
    /\ call.ret.TwentyFourSeven
    /\ call.ret.RegularHours = <<>>

\* C8: in GetOCPIOpeningTimes a close at minute 1440 is emitted as PeriodEnd
\* 00:00 on the close weekday itself, every entry before an interval's last
\* has PeriodEnd 00:00, and no entry has PeriodEnd 24:00; W1T08:00:00/W2T16:00:00
\* gives [{1,08:00,00:00},{2,00:00,16:00}].
C8_PeriodEndMidnight ==
    (call.op = "GetOCPIOpeningTimes" /\ ~call.ret.panic /\ ~call.ret.TwentyFourSeven)
    => /\ \A i \in 1..Len(call.arg) :
            LET c == call.arg[i].Close[1]
                e == call.emitted[i]
            IN  /\ c.MinutesSinceMidnight = 1440 =>
                      /\ e[Len(e)].Weekday = c.Weekday
                      /\ e[Len(e)].PeriodEnd = Time0000
                /\ \A k \in 1..(Len(e) - 1) : e[k].PeriodEnd = Time0000
       /\ call.ret.RegularHours # <<>> =>
            \A k \in 1..Len(call.ret.RegularHours[1]) :
                call.ret.RegularHours[1][k].PeriodEnd # Time2400
       /\ call.arg = <<Interval(1, 480, 2, 960)>> =>
            call.ret.RegularHours =
                <<<<OCPIRegularHours(1, <<"0", "8", ":", "0", "0">>, Time0000),
                    OCPIRegularHours(2, Time0000, <<"1", "6", ":", "0", "0">>)>>>>

C8_Witness ==
    /\ call.op = "GetOCPIOpeningTimes" /\ ~call.ret.panic
    /\ call.arg = <<Interval(5, 485, 7, 1440)>>
    /\ call.ret.RegularHours =
          <<<<OCPIRegularHours(5, <<"0", "8", ":", "0", "5">>, Time0000),
              OCPIRegularHours(6, Time0000, Time0000),
              OCPIRegularHours(7, Time0000, Time0000)>>>>

\* C9: a result of GetOCPIOpeningTimes has RegularHours only when
\* TwentyFourSeven is false and the list is non-empty; for the empty input the
\* result is the zero value.
C9_RegularHoursPresence ==
    (call.op = "GetOCPIOpeningTimes" /\ ~call.ret.panic)
    => /\ call.ret.RegularHours # <<>> =>
            ~call.ret.TwentyFourSeven /\ Len(call.ret.RegularHours[1]) > 0
       /\ call.arg = <<>> =>
            ~call.ret.TwentyFourSeven /\ call.ret.RegularHours = <<>>

C9_Witness ==
    /\ call.op = "GetOCPIOpeningTimes" /\ ~call.ret.panic
    /\ call.arg = <<>>
    /\ ~call.ret.TwentyFourSeven
    /\ call.ret.RegularHours = <<>>

\* C10: a day-splitting call on the sequence a successful ParseOpeningHours
\* returned, absent endpoints included, returns a result: it does not panic.
C10_NoPanicAfterParse ==
    (/\ call.op \in DaySplitting
     /\ prevCall.op = "ParseOpeningHours"
     /\ prevCall.ret.err = NoError)
    => ~call.ret.panic

\* ------------------------------------------------- parsing of given texts
ParseCalled == call.op = "ParseOpeningHours"

NonEmpty(s) == s # <<>>

SlashCount(s) == Cardinality({i \in 1..Len(s) : s[i] = "/"})

EndpointInvalid(e) == parseTimeInWeek(e).err # NoError

\* a segment ParseOpeningHours cannot accept
SegmentInvalid(s) ==
    /\ s # <<>>
    /\ \/ SlashCount(s) # 1
       \/ EndpointInvalid(Split(s, "/")[1])
       \/ EndpointInvalid(Split(s, "/")[2])

\* segment i is the first invalid one of segs
FirstInvalid(segs, i) ==
    /\ i \in 1..Len(segs)
    /\ SegmentInvalid(segs[i])
    /\ \A j \in 1..(i - 1) : ~SegmentInvalid(segs[j])

SegmentLevelError(seg) ==
    <<Lit("invalid opening hours string '"), Tok(seg), Lit("'")>>

Mentions(err, token) == \E k \in 1..Len(err) : err[k] = Tok(token)

\* C12: when a comma-separated segment of the input is invalid,
\* ParseOpeningHours returns an error and a nil list, whatever the earlier
\* segments were, and the error is the one the first invalid segment gives
\* when it is parsed on its own.
C12_FailureReturnsNoIntervals ==
    ParseCalled =>
       LET segs == Split(call.arg, ",")
       IN  \A i \in 1..Len(segs) :
              FirstInvalid(segs, i) =>
                 /\ call.ret.err # NoError
                 /\ call.ret.nil
                 /\ call.ret.ohs = <<>>
                 /\ call.ret.err = ParseOpeningHours(segs[i]).err

\* a valid segment followed by an invalid one: nothing is returned
C12_Witness ==
    /\ ParseCalled
    /\ LET segs == Split(call.arg, ",")
       IN  /\ Len(segs) >= 2
           /\ segs[1] # <<>>
           /\ SlashCount(segs[1]) = 1
           /\ ~SegmentInvalid(segs[1])
           /\ SegmentInvalid(segs[2])
    /\ call.ret.nil
    /\ call.ret.err # NoError

\* C13: ParseOpeningHours("") is the empty, non-nil sequence without error;
\* a successful parse has one entry per non-empty segment, in order, so every
\* empty segment is skipped; the segment "/" is accepted and gives an entry
\* with both endpoints absent.
C13_EmptySegmentsSkipped ==
    ParseCalled =>
       LET segs == Split(call.arg, ",")
           kept == SelectSeq(segs, NonEmpty)
       IN  /\ call.arg = <<>> =>
                call.ret = [nil |-> FALSE, ohs |-> <<>>, err |-> NoError]
           /\ (\A i \in 1..Len(segs) : segs[i] \in {<<>>, <<"/">>}) =>
                call.ret.err = NoError
           /\ call.ret.err = NoError =>
                /\ ~call.ret.nil
                /\ Len(call.ret.ohs) = Len(kept)
                /\ \A i \in 1..Len(kept) :
                      kept[i] = <<"/">> =>
                         call.ret.ohs[i] = [Open |-> <<>>, Close |-> <<>>]

\* ",,/" : two empty segments, then one entry with both endpoints absent
C13_Witness ==
    /\ ParseCalled
    /\ call.arg = <<",", ",", "/">>
    /\ call.ret.err = NoError
    /\ call.ret.ohs = <<[Open |-> <<>>, Close |-> <<>>]>>

\* C14: when the first invalid segment is one without exactly one "/", the
\* error is "invalid opening hours string" naming that segment, also when an
\* endpoint of the segment is itself invalid.
C14_SegmentLevelError ==
    ParseCalled =>
       LET segs == Split(call.arg, ",")
       IN  \A i \in 1..Len(segs) :
              (FirstInvalid(segs, i) /\ SlashCount(segs[i]) # 1) =>
                 call.ret.err = SegmentLevelError(segs[i])

\* a segment with two slashes whose opening endpoint is invalid too
C14_Witness ==
    /\ ParseCalled
    /\ LET segs == Split(call.arg, ",")
       IN  \E i \in 1..Len(segs) :
              /\ FirstInvalid(segs, i)
              /\ SlashCount(segs[i]) = 2
              /\ EndpointInvalid(Split(segs[i], "/")[1])
              /\ call.ret.err = SegmentLevelError(segs[i])

\* C15: when the first invalid segment has exactly one "/", the error is
\* "invalid opening hours: " followed by the opening endpoint's error if that
\* endpoint is invalid (also when the closing one is invalid too), and
\* "invalid closing hours: " followed by the closing endpoint's error
\* otherwise; it carries the offending token and a reason.
C15_FailingSide ==
    ParseCalled =>
       LET segs == Split(call.arg, ",")
       IN  \A i \in 1..Len(segs) :
              (FirstInvalid(segs, i) /\ SlashCount(segs[i]) = 1) =>
                 LET parts == Split(segs[i], "/")
                     open  == parseTimeInWeek(parts[1]).err
                     close == parseTimeInWeek(parts[2]).err
                 IN  IF open # NoError
                     THEN /\ call.ret.err = <<Lit("invalid opening hours: ")>> \o open
                          /\ Mentions(call.ret.err, parts[1])
                          /\ Len(call.ret.err) >= 3
                     ELSE /\ call.ret.err = <<Lit("invalid closing hours: ")>> \o close
                          /\ Mentions(call.ret.err, parts[2])
                          /\ Len(call.ret.err) >= 3

\* both endpoints invalid: the opening side is reported
C15_Witness ==
    /\ ParseCalled
    /\ LET segs == Split(call.arg, ",")
       IN  \E i \in 1..Len(segs) :
              /\ FirstInvalid(segs, i)
              /\ SlashCount(segs[i]) = 1
              /\ EndpointInvalid(Split(segs[i], "/")[1])
              /\ EndpointInvalid(Split(segs[i], "/")[2])
    /\ call.ret.err[1] = Lit("invalid opening hours: ")

\* C16: ParseMinutesSinceMidnight(h, m) succeeds exactly when h is an integer
\* in 0..24, m an integer in 0..59 and not (h = 24 and m # 0), and then
\* returns 60*h + m, a value in 0..1440; otherwise the error is "invalid hours
\* value" if h is bad, else "invalid minutes value" if m is bad, else "invalid
\* value".
C16_MinutesSinceMidnight ==
    call.op = "ParseMinutesSinceMidnight" =>
       LET h   == Atoi(call.arg[1])
           m   == Atoi(call.arg[2])
           hOK == h.ok /\ h.val \in 0..24
           mOK == m.ok /\ m.val \in 0..59
       IN  IF hOK /\ mOK /\ ~(h.val = 24 /\ m.val # 0)
           THEN /\ call.ret.err = NoError
                /\ call.ret.val = 60 * h.val + m.val
                /\ call.ret.val \in 0..1440
           ELSE call.ret.err =
                   <<Lit(IF ~hOK THEN "invalid hours value"
                         ELSE IF ~mOK THEN "invalid minutes value"
                         ELSE "invalid value")>>

\* ("24", "00") gives 1440
C16_Witness ==
    /\ call.op = "ParseMinutesSinceMidnight"
    /\ call.arg = << <<"2", "4">>, <<"0", "0">> >>
    /\ call.ret = [val |-> 1440, err |-> NoError]

RECURSIVE Flatten(_)
Flatten(lists) ==
    IF lists = <<>> THEN <<>> ELSE lists[1] \o Flatten(Tail(lists))

\* the ranges of weekday d among the entries, in the order of the entries
RangesOn(entries, d) ==
    LET OnDay(e) == e.Weekday = d
        on == SelectSeq(entries, OnDay)
    IN  [i \in 1..Len(on) |-> TimeRange(on[i].Open, on[i].Close)]

\* C17: the keys of the map GetHumanReadableTimes returns are lower-case
\* English weekday names; a weekday is a key exactly when a range of some
\* interval falls on it; the ranges of a weekday are all the ranges the
\* intervals produced for it, in the order of the intervals.
C17_KeysAndOrder ==
    (call.op = "GetHumanReadableTimes" /\ ~call.ret.panic) =>
       LET entries == Flatten(call.emitted)
           times   == call.ret.times
       IN  /\ DOMAIN times \subseteq {DayName[w] : w \in 1..7}
           /\ DOMAIN times = {entries[i].Weekday : i \in 1..Len(entries)}
           /\ \A d \in DOMAIN times :
                 times[d] # <<>> /\ times[d] = RangesOn(entries, d)

\* two intervals put different ranges on one weekday: both are kept, the
\* first interval's before the second's
C17_Witness ==
    /\ call.op = "GetHumanReadableTimes"
    /\ ~call.ret.panic
    /\ Len(call.emitted) = 2
    /\ \E d \in DOMAIN call.ret.times :
          /\ Len(call.ret.times[d]) = 2
          /\ call.ret.times[d][1] # call.ret.times[d][2]
          /\ RangesOn(call.emitted[1], d) = <<call.ret.times[d][1]>>
          /\ RangesOn(call.emitted[2], d) = <<call.ret.times[d][2]>>

\* ------------------------------------------- repeated calls on one value
BothEndpointsPresent(x) ==
    \A i \in 1..Len(x) : x[i].Open # <<>> /\ x[i].Close # <<>>

\* what the call op returns on a freshly parsed copy of x
OnFreshCopy(op, x) ==
    LET a == Allocate(x, 0, 1, TwentyFourSevenCells, <<>>)
    IN  IF op = "GetHumanReadableTimes"
        THEN LET r == GetHumanReadableTimes(a.heap, a.ohs)
             IN  [nil |-> r.nil, times |-> r.times, panic |-> r.panic]
        ELSE LET r == GetOCPIOpeningTimes(a.heap, a.ohs)
             IN  [TwentyFourSeven |-> r.TwentyFourSeven,
                  RegularHours |-> r.RegularHours, panic |-> r.panic]

\* C20: when x was returned by a successful ParseOpeningHours with both
\* endpoints present in every interval and GetHumanReadableTimes or
\* GetOCPIOpeningTimes has been called on it, the next such call on x returns
\* what it returns on a freshly parsed copy of x.
C20_SecondCallAsOnFreshCopy ==
    [][ ( /\ call.op \in DaySplitting
          /\ prevCall.op = "ParseOpeningHours"
          /\ prevCall.ret.err = NoError
          /\ BothEndpointsPresent(prevCall.ret.ohs)
          /\ call'.op \in DaySplitting )
        => call'.ret = OnFreshCopy(call'.op, prevCall.ret.ohs) ]_vars

\* ------------------------------------------------------ concurrent calls
\* C11: each of two calls made concurrently on the same slice returns what
\* the same call returns when it runs alone on the value the slice had,
\* under every interleaving of the two.
C11_ConcurrentCallsAsAlone ==
    \A g \in 1..Len(running) :
       running[g].pc = "done" =>
          running[g].ret = OnFreshCopy(running[g].fn, running[g].arg)

\* ---------------------------------------------- the two day splits compared
\* the OCPI periods of weekday d among the entries, in the order of the entries
PeriodsOn(entries, d) ==
    LET OnDay(e) == e.Weekday = d
        on == SelectSeq(entries, OnDay)
    IN  [i \in 1..Len(on) |->
            [PeriodBegin |-> on[i].PeriodBegin, PeriodEnd |-> on[i].PeriodEnd]]

\* the ranges of a weekday of the day breakdown, written as OCPI periods
AsPeriods(ranges) ==
    [i \in 1..Len(ranges) |->
        [PeriodBegin |-> ranges[i].Open,
         PeriodEnd   |-> IF ranges[i].Close = Time2400 THEN Time0000
                         ELSE ranges[i].Close]]

RegularHoursList(ret) ==
    IF ret.RegularHours = <<>> THEN <<>> ELSE ret.RegularHours[1]

\* C21: for a sequence with both endpoints present that is not the 24/7
\* special case, the OCPI entries of each weekday d are, in order, the ranges
\* GetHumanReadableTimes gives for d on the same value, with PeriodBegin the
\* Open and PeriodEnd the Close, 24:00 written 00:00.
C21_SameDaySplit ==
    (/\ call.op = "GetOCPIOpeningTimes"
     /\ BothEndpointsPresent(call.arg)
     /\ ~AllTwentyFourSeven(call.arg))
    => /\ ~call.ret.panic
       /\ ~call.ret.TwentyFourSeven
       /\ LET times == OnFreshCopy("GetHumanReadableTimes", call.arg).times
          IN  \A d \in 1..7 :
                 PeriodsOn(RegularHoursList(call.ret), d) =
                    IF DayName[d] \in DOMAIN times
                    THEN AsPeriods(times[DayName[d]])
                    ELSE <<>>

\* W1T08:00:00/W2T16:00:00: monday 08:00-24:00 is the period 1 08:00-00:00
C21_Witness ==
    /\ call.op = "GetOCPIOpeningTimes"
    /\ call.arg = <<Interval(1, 480, 2, 960)>>
    /\ PeriodsOn(RegularHoursList(call.ret), 1) =
          <<[PeriodBegin |-> <<"0", "8", ":", "0", "0">>, PeriodEnd |-> Time0000]>>
    /\ OnFreshCopy("GetHumanReadableTimes", call.arg).times["monday"] =
          <<TimeRange(<<"0", "8", ":", "0", "0">>, Time2400)>>

\* minutes of the clock text HH:MM
ClockMinutes(text) ==
    60 * DigitsToNat(SubSeq(text, 1, 2)) + DigitsToNat(SubSeq(text, 4, 5))

\* C22: every entry GetOCPIOpeningTimes emits for a sequence a successful
\* ParseOpeningHours returned with both endpoints present has PeriodEnd later
\* than PeriodBegin, or PeriodEnd 00:00.
C22_PeriodEndAfterBegin ==
    (/\ call.op = "GetOCPIOpeningTimes"
     /\ prevCall.op = "ParseOpeningHours"
     /\ prevCall.ret.err = NoError
     /\ BothEndpointsPresent(prevCall.ret.ohs))
    => \A k \in 1..Len(RegularHoursList(call.ret)) :
          LET e == RegularHoursList(call.ret)[k]
          IN  \/ e.PeriodEnd = Time0000
              \/ ClockMinutes(e.PeriodEnd) > ClockMinutes(e.PeriodBegin)

\* ------------------------------------------------- entries per interval
EntryWeekdays(e) == {e[k].Weekday : k \in 1..Len(e)}

C29_TwentyFourSevenOHKept ==
    /\ heap[TwentyFourSevenOH.Open] = TimeInWeek(1, 0)
    /\ heap[TwentyFourSevenOH.Close] = TimeInWeek(7, 1440)

\* ------------------------------------------------------- endpoint tokens
\* the tokens of the non-empty segments of a text, per segment <<open, close>>
KeptParts(text) ==
    LET kept == SelectSeq(Split(text, ","), NonEmpty)
    IN  [i \in 1..Len(kept) |-> Split(kept[i], "/")]

\* the clock HH:MM of a token W<d>T<HH>:<MM>:<SS>
ClockOf(token) == SubSeq(token, 4, 8)

InRangeFrom(e, token) ==
    e # <<>> =>
       /\ e[1].Weekday \in 1..7
       /\ e[1].MinutesSinceMidnight \in 0..1440
       /\ e[1].MinutesSinceMidnight = 1440 => ClockOf(token) = Time2400

\* C23: every present endpoint of a successful ParseOpeningHours has its
\* weekday in 1..7 and its minutes in 0..1440, and 1440 only when the clock of
\* its token is 24:00.
C23_EndpointsInRange ==
    (ParseCalled /\ call.ret.err = NoError) =>
       LET parts == KeptParts(call.arg)
       IN  /\ Len(call.ret.ohs) = Len(parts)
           /\ \A i \in 1..Len(parts) :
                 /\ InRangeFrom(call.ret.ohs[i].Open, parts[i][1])
                 /\ InRangeFrom(call.ret.ohs[i].Close, parts[i][2])

\* "W7T24:00:59/" : sunday, 1440
C23_Witness ==
    /\ ParseCalled
    /\ call.arg = Endpoints(RawEndpoint("7", <<"2", "4">>, <<"0", "0">>, <<"5", "9">>), <<>>)
    /\ call.ret.ohs = <<[Open |-> <<TimeInWeek(7, 1440)>>, Close |-> <<>>]>>

MatchesPattern(token) ==
    /\ Len(token) = 11
    /\ token[1] = "W" /\ token[3] = "T" /\ token[6] = ":" /\ token[9] = ":"
    /\ \A k \in {2, 4, 5, 7, 8, 10, 11} : IsDigit(token[k])

\* the error of an endpoint token, NoError when it is accepted
TokenError(token) ==
    IF token = <<>> THEN NoError
    ELSE IF ~MatchesPattern(token)
    THEN <<Lit("invalid value '"), Tok(token), Lit("'")>>
    ELSE IF token[2] \in {"0", "8", "9"}
    THEN <<Lit("invalid workday in '"), Tok(token),
           Lit("': expected to be between 1 (monday) and 7 (sunday)")>>
    ELSE LET clock == ParseMinutesSinceMidnight(SubSeq(token, 4, 5), SubSeq(token, 7, 8))
         IN  IF clock.err # NoError
             THEN <<Lit("invalid time in '"), Tok(token), Lit("': ")>> \o clock.err
             ELSE NoError

WithSeconds(text, ss) ==
    LET segs == Split(text, ",")
        Token(t) == IF Len(t) = 11 THEN SubSeq(t, 1, 9) \o ss ELSE t
        Segment(seg) ==
            LET parts == Split(seg, "/")
            IN  Join([k \in 1..Len(parts) |-> Token(parts[k])], <<"/">>)
    IN  Join([i \in 1..Len(segs) |-> Segment(segs[i])], <<",">>)

SecondsTexts == {<<"0", "0">>, <<"0", "7">>, <<"5", "9">>, <<"6", "0">>, <<"9", "9">>}

\* C25: when ParseOpeningHours accepts a text, it returns the same for the
\* text with the seconds of its tokens replaced by any two digits, and the
\* string formatted from the result has seconds 00 in every token.
C25_SecondsIgnored ==
    (/\ call.op = "OpeningHoursSliceToString"
     /\ prevCall.op = "ParseOpeningHours"
     /\ prevCall.ret.err = NoError)
    => /\ \A ss \in SecondsTexts :
             ParseOpeningHours(WithSeconds(prevCall.arg, ss)) = prevCall.ret
       /\ LET parts == KeptParts(call.ret)
          IN  \A i \in 1..Len(parts) : \A k \in 1..Len(parts[i]) :
                 parts[i][k] # <<>> =>
                    SubSeq(parts[i][k], 9, 11) = <<":", "0", "0">>

\* "W1T08:30:59/" is parsed as W1T08:30:00 and formatted as "W1T08:30:00/"
C25_Witness ==
    /\ call.op = "OpeningHoursSliceToString"
    /\ prevCall.op = "ParseOpeningHours"
    /\ prevCall.arg =
          Endpoints(RawEndpoint("1", <<"0", "8">>, <<"3", "0">>, <<"5", "9">>), <<>>)
    /\ call.ret =
          Endpoints(RawEndpoint("1", <<"0", "8">>, <<"3", "0">>, <<"0", "0">>), <<>>)

\* C26: minutesSinceMidnightToTime(m), m in 0..1440, is the two-digit hour
\* m div 60, ":", the two-digit minute m mod 60, so 24:00 for 1440; and
\* ParseMinutesSinceMidnight on its hour and minute texts returns m.
C26_RenderAndParse ==
    /\ call.op = "minutesSinceMidnightToTime" =>
          /\ call.ret = ClockText(call.arg)
          /\ call.arg = 1440 => call.ret = Time2400
    /\ (call.op = "ParseMinutesSinceMidnight"
           /\ prevCall.op = "minutesSinceMidnightToTime") =>
          /\ call.arg = <<SubSeq(prevCall.ret, 1, 2), SubSeq(prevCall.ret, 4, 5)>>
          /\ call.ret = [val |-> prevCall.arg, err |-> NoError]

C26_Witness ==
    /\ call.op = "ParseMinutesSinceMidnight"
    /\ prevCall.op = "minutesSinceMidnightToTime"
    /\ prevCall.arg = 1440
    /\ prevCall.ret = Time2400
    /\ call.ret.val = 1440

\* ------------------------------------------- GetHumanReadableTimes(s string)
StringFrame == running[1]

\* the loop over the days is at its test with a currentWeekInt it has already
\* tested against the same closingWeekInt
WalkRepeats ==
    /\ InWalk
    /\ StringFrame.currentWeekInt # StringFrame.closing.weekInt
    /\ StringFrame.currentWeekInt \in StringFrame.seen

\* C27: GetHumanReadableTimes(s string) returns for every input, a map or an
\* error, also when the weekday digit of a token of the pattern is 0, 8 or 9:
\* the loop over the days never comes back to a weekday it has tested.
C27_StringVariantTerminates == ~WalkRepeats

\* "open: HH:MM, close: HH:MM"
OpenCloseText(range) ==
    <<"o", "p", "e", "n", ":", " ">> \o range.Open
       \o <<",", " ", "c", "l", "o", "s", "e", ":", " ">> \o range.Close

\* ParseOpeningHours accepts the text, both endpoints of every interval present
AcceptedInFull(text) ==
    LET p == ParseOpeningHours(text)
    IN  p.err = NoError /\ BothEndpointsPresent(p.ohs)

\* C30: for a text ParseOpeningHours accepts with both endpoints of every
\* interval present, GetHumanReadableTimes(s string) returns, without error,
\* the weekdays that GetHumanReadableTimes gives on the parsed intervals and,
\* per weekday, its ranges in order, each written "open: HH:MM, close: HH:MM".
C30_StringAndIntervalVariantsAgree ==
    /\ (running # <<>> /\ AcceptedInFull(given.args[1])) => ~WalkRepeats
    /\ (call.op = "GetHumanReadableTimes(s string)" /\ AcceptedInFull(call.arg)) =>
          LET t == OnFreshCopy("GetHumanReadableTimes", ParseOpeningHours(call.arg).ohs)
          IN  /\ call.ret.err = NoError
              /\ ~t.panic
              /\ DOMAIN call.ret.times = DOMAIN t.times
              /\ \A d \in DOMAIN t.times :
                    call.ret.times[d] =
                       [k \in 1..Len(t.times[d]) |-> OpenCloseText(t.times[d][k])]

\* "W1T13:00:00/W2T00:00:00,W7T20:00:00/W1T08:05:00" : monday has the range
\* of the first interval, then the closing day of the second
C30_Witness ==
    /\ call.op = "GetHumanReadableTimes(s string)"
    /\ AcceptedInFull(call.arg)
    /\ call.ret.err = NoError
    /\ DOMAIN call.ret.times = {"monday", "sunday"}
    /\ call.ret.times["monday"] =
          <<OpenCloseText(TimeRange(<<"1", "3", ":", "0", "0">>, Time2400)),
            OpenCloseText(TimeRange(Time0000, <<"0", "8", ":", "0", "5">>))>>
    /\ call.ret.times["sunday"] =
          <<OpenCloseText(TimeRange(<<"2", "0", ":", "0", "0">>, Time2400))>>

====
